---- MODULE Spec2Model ----
(***************************************************************************)
(* Frame codec and listener of the Resim UDP tools.                        *)
(*                                                                         *)
(*   - the LaneChange encoder of lane_change_test.py and the decoder       *)
(*     parse_resim_data of udp_receiver.py, as operators on byte           *)
(*     sequences (bytes are 0..255, text is a sequence of code points,     *)
(*     a hex string is a sequence of hex digits 0..15);                    *)
(*   - udp_receiver.py's process: main, one udp_listener thread per port,  *)
(*     the module-level dict stats and the module-level flag running.      *)
(*     The listener's statements on the shared dict are separate steps:    *)
(*     the code takes no lock, so threads interleave between them;         *)
(*   - udp_receiver.py's status thread display_status;                     *)
(*   - the encoders of lane_change_test.py, resim_lane_change.py and       *)
(*     gymEvn.py;                                                          *)
(*   - updre.py's UDPReceiver: its receive loop and its status thread.     *)
(***************************************************************************)
EXTENDS Integers, Sequences, FiniteSets, TLC

(***************************************************************************)
(* Python helpers                                                          *)
(***************************************************************************)

Min(a, b) == IF a < b THEN a ELSE b

Max(a, b) == IF a > b THEN a ELSE b

\* data[lo:hi] of Python: 0-based, hi exclusive, clamped to the sequence.
Slice(data, lo, hi) == SubSeq(data, Min(lo, Len(data)) + 1, Min(hi, Len(data)))

\* s[:n]
Take(s, n) == SubSeq(s, 1, Min(n, Len(s)))

\* s[-n:]
LastN(s, n) == SubSeq(s, Max(Len(s) - n, 0) + 1, Len(s))

\* data.startswith(p)
StartsWith(data, p) == Len(data) >= Len(p) /\ SubSeq(data, 1, Len(p)) = p

\* binascii.hexlify(data).decode(): two hex digits per byte, high digit first.
Hexlify(data) ==
    [i \in 1..(2 * Len(data)) |->
        IF i % 2 = 1 THEN data[(i + 1) \div 2] \div 16 ELSE data[i \div 2] % 16]

\* U+FFFD, what errors='replace' puts for a byte that does not decode.
REPLACEMENT == 65533

\* a decoding that would drop the high bit of a byte
DecodeAscii_strip(b) == [i \in 1..Len(b) |-> b[i] % 128]

\* b.decode('ascii', errors='replace')
DecodeAscii(b) == [i \in 1..Len(b) |-> IF b[i] < 128 THEN b[i] ELSE REPLACEMENT]

\* the UTF-8 decoder from byte i of b on.  A lead byte C2..DF, E0..EF or
\* F0..F4 followed by the continuation bytes its sequence needs gives one
\* code point; the second byte's range is narrowed after E0 (A0..BF), ED
\* (80..9F), F0 (90..BF) and F4 (80..8F).  With errors='replace' a byte that
\* starts no sequence gives U+FFFD; a sequence broken by a byte that cannot
\* continue it gives one U+FFFD for the bytes before that byte, and decoding
\* goes on at that byte; a sequence cut by the end of the data gives one
\* U+FFFD for all the bytes left.
RECURSIVE Utf8From(_, _)
Utf8From(b, i) ==
    IF i > Len(b) THEN << >>
    ELSE
      LET c == b[i]
          left == Len(b) - i + 1
          lo2 == IF c = 224 THEN 160 ELSE IF c = 240 THEN 144 ELSE 128
          hi2 == IF c = 237 THEN 159 ELSE IF c = 244 THEN 143 ELSE 191
          need == IF c \in 194..223 THEN 2 ELSE IF c \in 224..239 THEN 3 ELSE 4
          IsContinuation(k) == IF k = 1 THEN b[i + 1] \in lo2..hi2 ELSE b[i + k] \in 128..191
          \* where the sequence breaks: k when byte i+k cannot continue it,
          \* negative when the data ends first, 0 when it is complete
          at == IF left <= 1 THEN 0 - 1
                ELSE IF ~IsContinuation(1) THEN 1
                ELSE IF need = 2 THEN 0
                ELSE IF left <= 2 THEN 0 - 2
                ELSE IF ~IsContinuation(2) THEN 2
                ELSE IF need = 3 THEN 0
                ELSE IF left <= 3 THEN 0 - 3
                ELSE IF ~IsContinuation(3) THEN 3
                ELSE 0
          CodePoint ==
              CASE need = 2 -> (c - 192) * 64 + (b[i + 1] - 128)
                [] need = 3 -> (c - 224) * 4096 + (b[i + 1] - 128) * 64 + (b[i + 2] - 128)
                [] need = 4 -> (c - 240) * 262144 + (b[i + 1] - 128) * 4096
                                 + (b[i + 2] - 128) * 64 + (b[i + 3] - 128)
      IN  IF c < 128 THEN << c >> \o Utf8From(b, i + 1)
          ELSE IF c \notin 194..244 THEN << REPLACEMENT >> \o Utf8From(b, i + 1)
          ELSE IF at < 0 THEN << REPLACEMENT >>
          ELSE IF at > 0 THEN << REPLACEMENT >> \o Utf8From(b, i + at)
          ELSE << CodePoint >> \o Utf8From(b, i + need)

\* a decoding that would take every byte on its own
DecodeUtf8_bytewise(b) == [i \in 1..Len(b) |-> IF b[i] < 128 THEN b[i] ELSE REPLACEMENT]

\* b.decode('utf-8', errors='replace')
DecodeUtf8(b) == Utf8From(b, 1)

\* struct.pack('<i', x): 4 bytes, little-endian two's complement.
struct_pack_i(x) ==
    << x % 256, (x \div 256) % 256, (x \div 65536) % 256, (x \div 16777216) % 256 >>

\* struct.unpack('<i', b) raises struct.error unless b holds exactly 4 bytes.
StructError(b) == Len(b) # 4

\* struct.unpack('<i', b)[0], for a 4-byte b
struct_unpack_i(b) ==
    b[1] + 256 * b[2] + 65536 * b[3]
    + 16777216 * (IF b[4] >= 128 THEN b[4] - 256 ELSE b[4])

(***************************************************************************)
(* ASCII literals of the sources                                           *)
(***************************************************************************)

B_CL == << 67, 76 >>

B_RL == << 82, 76 >>

B_SS == << 83, 83 >>

B_CS == << 67, 83 >>

B_CP == << 67, 80 >>

B_CR == << 67, 82 >>

B_AP == << 65, 80 >>

B_AS == << 65, 83 >>

B_TS == << 84, 83 >>

B_RS == << 82, 83 >>

B_RP == << 82, 80 >>

B_RQ == << 82, 81 >>

B_CC == << 67, 67 >>

B_RSd == << 82, 83, 100 >>

B_TSPY == << 84, 83, 80, 89 >>

B_FCAL == << 70, 67, 65, 76 >>

B_CAL == << 67, 65, 76 >>

B_FCS == << 70, 67, 83 >>

B_TEST_ == << 84, 69, 83, 84, 95 >>

(***************************************************************************)
(* lane_change_test.py: the LaneChange encoder                             *)
(***************************************************************************)

create_lane_change_command_swapped(agent_id, direction, mode) ==
    B_CL \o struct_pack_i(agent_id) \o struct_pack_i(mode) \o struct_pack_i(direction)

\* b'CL' + struct.pack('<iii', agent_id, direction, mode)
create_lane_change_command(agent_id, direction, mode) ==
    B_CL \o struct_pack_i(agent_id) \o struct_pack_i(direction) \o struct_pack_i(mode)

\* struct.pack('<f', x): the IEEE 754 single-precision encoding, least
\* significant byte first.  A float argument is given as a whole number h of
\* half units (x = h / 2, |h| < 2^24), which single precision holds exactly.
struct_pack_f(h) ==
    IF h = 0 THEN << 0, 0, 0, 0 >>
    ELSE LET m == IF h < 0 THEN -h ELSE h
             k == CHOOSE j \in 0..23 : 2^j <= m /\ m < 2^(j + 1)
             biased == k - 1 + 127
             fraction == (m - 2^k) * 2^(23 - k)
             sign == IF h < 0 THEN 1 ELSE 0
         IN << fraction % 256, (fraction \div 256) % 256,
               (biased % 2) * 128 + fraction \div 65536, sign * 128 + biased \div 2 >>

(***************************************************************************)
(* The other encoders of the sending tools                                 *)
(***************************************************************************)

\* lane_change_test.py line 73
create_assigned_lane_change_command(agent_id, direction, mode, distance) ==
    B_CAL \o struct_pack_i(agent_id) \o struct_pack_i(direction) \o struct_pack_i(mode)
          \o struct_pack_f(distance)

\* lane_change_test.py line 77
create_start_simulation_command == B_CS

\* resim_lane_change.py lines 9-11: class LaneChangeDirection(Enum), its values
LaneChangeDirection == {0, 1}

\* resim_lane_change.py lines 13-15: class LaneChangeMode(Enum), its values
LaneChangeMode == {0, 1}

\* resim_lane_change.py lines 59-60, 93-94: direction.value and mode.value.  An
\* argument that is no member of the Enum has no attribute value: the
\* AttributeError is caught at line 72 (107), nothing is sent and the method
\* returns False.  The Enums have no member for a value outside {0, 1}.
request_lane_change_fails(direction, mode) ==
    direction \notin LaneChangeDirection \/ mode \notin LaneChangeMode

\* resim_lane_change.py lines 57-66: the bytes given to sendto
request_lane_change(agent_id, direction, mode) ==
    B_FCAL \o struct_pack_i(agent_id) \o struct_pack_i(direction) \o struct_pack_i(mode)

\* resim_lane_change.py lines 91-101: the bytes given to sendto
request_assigned_lane_change(agent_id, direction, mode, distance) ==
    B_FCAL \o struct_pack_i(agent_id) \o struct_pack_i(direction) \o struct_pack_i(mode)
           \o struct_pack_f(distance)

\* gymEvn.py lines 83-88
_create_lane_change_command(agent_id, direction, mode) ==
    B_FCAL \o struct_pack_i(agent_id) \o struct_pack_i(direction) \o struct_pack_i(mode)

\* gymEvn.py line 110
_create_start_command == B_FCS

(***************************************************************************)
(* udp_receiver.py: parse_resim_data.  The returned f-string is modelled   *)
(* as a record: kind names the format string, the other fields are the     *)
(* values formatted into it.                                               *)
(***************************************************************************)

\* '左' if direction==0 else '右'
DirectionStr(direction) == IF direction = 0 THEN "left" ELSE "right"

\* '检查风险' if mode==0 else '强制变更'
ModeStr(mode) == IF mode = 0 THEN "check_risk" ELSE "force_change"

\* '成功' if result==1 else '失败'
ResultStr(result) == IF result = 1 THEN "success" ELSE "failure"

\* a table that would show an unknown status without its sign
StatusStr_unsigned(status) ==
    CASE status = 0 -> [name |-> "stopped", value |-> 0]
      [] status = 1 -> [name |-> "running", value |-> 1]
      [] status = 2 -> [name |-> "paused", value |-> 2]
      [] OTHER -> [name |-> "unknown", value |-> IF status < 0 THEN 0 - (status + 1) ELSE status]

\* {0: "已停止", 1: "正在运行", 2: "已暂停"}.get(status, f"未知状态({status})")
StatusStr(status) ==
    CASE status = 0 -> [name |-> "stopped", value |-> 0]
      [] status = 1 -> [name |-> "running", value |-> 1]
      [] status = 2 -> [name |-> "paused", value |-> 2]
      [] OTHER -> [name |-> "unknown", value |-> status]

\* a branch that would report the size of what follows the prefix
ParseRSd_payload(data, prefix3) ==
    IF Len(data) = 3
    THEN [kind |-> "SyncSignal", prefix |-> prefix3]
    ELSE [kind |-> "VehicleState", prefix |-> prefix3, size |-> Len(data) - 3]

\* lines 63-67
ParseRSd(data, prefix3) ==
    IF Len(data) = 3
    THEN [kind |-> "SyncSignal", prefix |-> prefix3]
    ELSE [kind |-> "VehicleState", prefix |-> prefix3, size |-> Len(data)]

\* lines 70-75
ParseTest(data) == [kind |-> "TestString", message |-> DecodeUtf8(data)]

\* lines 93-99
ParseTSPY(data) ==
    IF StructError(Slice(data, 4, 8))
    THEN [kind |-> "CounterTestUnparsed", message |-> DecodeUtf8(Slice(data, 4, Len(data)))]
    ELSE [kind |-> "CounterTest", counter |-> struct_unpack_i(Slice(data, 4, 8)),
          message |-> DecodeUtf8(Slice(data, 8, Len(data)))]

\* lines 102-114
ParseSS(data, hex_data) ==
    IF Len(data) >= 6
    THEN IF StructError(Slice(data, 2, 6))
         THEN [kind |-> "SimStatusUnparsed", hex |-> hex_data]
         ELSE [kind |-> "SimStatus", status |-> StatusStr(struct_unpack_i(Slice(data, 2, 6)))]
    ELSE [kind |-> "SimStatusBlob", size |-> Len(data)]

IsLaneChangeCommand_unguarded(prefix2, data) == prefix2 = B_CL

\* line 117
IsLaneChangeCommand(prefix2, data) == prefix2 = B_CL /\ Len(data) >= 14

ParseCL_swapped(data, hex_data) ==
    LET agent_id == struct_unpack_i(Slice(data, 2, 6))
        direction == struct_unpack_i(Slice(data, 10, 14))
        mode == struct_unpack_i(Slice(data, 6, 10))
    IN IF \E b \in {Slice(data, 2, 6), Slice(data, 6, 10), Slice(data, 10, 14)} : StructError(b)
       THEN [kind |-> "CLParseError", hex |-> hex_data]
       ELSE [kind |-> "LaneChangeCommand", agent_id |-> agent_id,
             direction |-> DirectionStr(direction), mode |-> ModeStr(mode)]

\* lines 118-124
ParseCL(data, hex_data) ==
    LET agent_id == struct_unpack_i(Slice(data, 2, 6))
        direction == struct_unpack_i(Slice(data, 6, 10))
        mode == struct_unpack_i(Slice(data, 10, 14))
    IN IF \E b \in {Slice(data, 2, 6), Slice(data, 6, 10), Slice(data, 10, 14)} : StructError(b)
       THEN [kind |-> "CLParseError", hex |-> hex_data]
       ELSE [kind |-> "LaneChangeCommand", agent_id |-> agent_id,
             direction |-> DirectionStr(direction), mode |-> ModeStr(mode)]

ParseRL_swapped(data, hex_data) ==
    LET agent_id == struct_unpack_i(Slice(data, 2, 6))
        result == struct_unpack_i(Slice(data, 10, 14))
        reason == struct_unpack_i(Slice(data, 6, 10))
    IN IF \E b \in {Slice(data, 2, 6), Slice(data, 6, 10), Slice(data, 10, 14)} : StructError(b)
       THEN [kind |-> "RLParseError", hex |-> hex_data]
       ELSE [kind |-> "LaneChangeResponse", agent_id |-> agent_id,
             result |-> ResultStr(result), reason |-> reason]

\* line 127
IsLaneChangeResponse(prefix2, data) == prefix2 = B_RL /\ Len(data) >= 14

\* lines 128-134
ParseRL(data, hex_data) ==
    LET agent_id == struct_unpack_i(Slice(data, 2, 6))
        result == struct_unpack_i(Slice(data, 6, 10))
        reason == struct_unpack_i(Slice(data, 10, 14))
    IN IF \E b \in {Slice(data, 2, 6), Slice(data, 6, 10), Slice(data, 10, 14)} : StructError(b)
       THEN [kind |-> "RLParseError", hex |-> hex_data]
       ELSE [kind |-> "LaneChangeResponse", agent_id |-> agent_id,
             result |-> ResultStr(result), reason |-> reason]

\* hex_data[:60]
HexShown == 60

Unrecognized_short(data, prefix4, hex_data) ==
    [kind |-> "Unrecognized", prefix |-> prefix4, size |-> Len(data),
     hex |-> Take(hex_data, HexShown - 20)]

\* line 153; the format string ends the hex digits with a literal "..."
Unrecognized(data, prefix4, hex_data) ==
    [kind |-> "Unrecognized", prefix |-> prefix4, size |-> Len(data),
     hex |-> Take(hex_data, HexShown)]

\* lines 63-153: the if / elif chain, in the source's order
ParseByPrefix(data, hex_data, prefix2, prefix3, prefix4) ==
    IF prefix3 = B_RSd THEN ParseRSd(data, prefix3)
    ELSE IF StartsWith(data, B_TEST_) THEN ParseTest(data)
    ELSE IF prefix2 = B_AP THEN [kind |-> "AgentPosition", size |-> Len(data)]
    ELSE IF prefix2 = B_AS THEN [kind |-> "AgentState", size |-> Len(data)]
    ELSE IF prefix2 = B_TS THEN [kind |-> "TrafficSignal", size |-> Len(data)]
    ELSE IF StartsWith(data, B_TSPY) THEN ParseTSPY(data)
    ELSE IF prefix2 = B_SS THEN ParseSS(data, hex_data)
    ELSE IF IsLaneChangeCommand(prefix2, data) THEN ParseCL(data, hex_data)
    ELSE IF IsLaneChangeResponse(prefix2, data) THEN ParseRL(data, hex_data)
    ELSE IF prefix2 = B_CS THEN [kind |-> "StartSimulation"]
    ELSE IF prefix2 = B_CP THEN [kind |-> "PauseSimulation"]
    ELSE IF prefix2 = B_CR THEN [kind |-> "ResumeSimulation"]
    ELSE IF prefix2 \in {B_RS, B_RP, B_RQ, B_CC}
         THEN [kind |-> "ResimCommand", prefix |-> prefix2, hex |-> hex_data]
    ELSE Unrecognized(data, prefix4, hex_data)

parse_resim_data_indexing(data) ==
    LET hex_data == Hexlify(data)
    IN IF Len(data) < 2
       THEN [kind |-> "Raised", hex |-> hex_data]
       ELSE LET prefix2 == DecodeAscii(Slice(data, 0, 2))
                prefix3 == IF Len(data) >= 3 THEN DecodeAscii(Slice(data, 0, 3)) ELSE prefix2
                prefix4 == IF Len(data) >= 4 THEN DecodeAscii(Slice(data, 0, 4)) ELSE prefix3
            IN ParseByPrefix(data, hex_data, prefix2, prefix3, prefix4)

\* lines 42-157
parse_resim_data(data) ==
    LET hex_data == Hexlify(data)
    IN IF Len(data) < 2
       THEN [kind |-> "PacketTooShort", hex |-> hex_data]
       ELSE LET prefix2 == DecodeAscii(Slice(data, 0, 2))
                prefix3 == IF Len(data) >= 3 THEN DecodeAscii(Slice(data, 0, 3)) ELSE prefix2
                prefix4 == IF Len(data) >= 4 THEN DecodeAscii(Slice(data, 0, 4)) ELSE prefix3
            IN ParseByPrefix(data, hex_data, prefix2, prefix3, prefix4)

(***************************************************************************)
(* State                                                                   *)
(***************************************************************************)

VARIABLES
    codec,      \* one run of the codec: the command given, the bytes on the wire, the decoder's result
    ports,      \* args.ports of udp_receiver.main
    running,    \* udp_receiver's module-level flag running
    stats,      \* udp_receiver's module-level dict stats
    list_id,    \* identity of the list object bound to stats['last_commands']
    clock,      \* number of datetime.now() readings taken for stats['last_packet_time']
    main,       \* udp_receiver.main: its position, its local name running, the threads started
    listener,   \* per port, the udp_listener thread: its position and locals
    delivered,  \* per port, the datagrams recvfrom has returned so far, in order
    inflight,   \* how many datagrams are still to arrive
    status,     \* udp_receiver.display_status: the status thread's position and locals
    enc,        \* one call of an encoder of the sending tools, and the decoding of its bytes
    updre,      \* updre.py: a UDPReceiver, its main thread and its status thread
    sender,     \* one run of a sending tool: its commands, its position, what each send did
    changer,    \* resim_lane_change.py: a ResimLaneChanger, its caller and its cyclic workers
    simulator,  \* resim_simulator.py: the simulator, what it received and what it sent
    fwd,        \* udp_forwarder.py: the forwarder, what it received and what it forwarded
    env         \* gymEvn.py: a ResimEnv, its step counter and the frames it sent

vars ==
    << simulator, fwd, env, sender, changer, codec, enc, updre, status, ports, running, stats, list_id, clock, main,
       listener, delivered, inflight >>

receiverVars ==
    << status, ports, running, stats, list_id, clock, main, listener, delivered, inflight >>

NoCommand == [agent_id |-> 0, direction |-> 0, mode |-> 0]

NoResult == [kind |-> "None"]

\* no encoder is called
EncOff ==
    [phase |-> "off", encoder |-> "none",
     args |-> [agent_id |-> 0, direction |-> 0, mode |-> 0, distance |-> 0],
     wire |-> << >>, result |-> NoResult]

\* updre.py lines 23-40, UDPReceiver.__init__: running False, no socket, the
\* counters 0, no command type counted; with it the positions of the thread
\* that calls start() and of the status thread and their locals, the
\* datagrams recvfrom returned and how many are still to arrive, and what
\* happened to the receive loop (errors other than a timeout, Ctrl+C)
UpdreOff ==
    [pc |-> "not_run", running |-> FALSE, socket |-> "None", packet_count |-> 0,
     stats |-> [total_packets |-> 0, total_bytes |-> 0, command_types |-> [k \in {} |-> 0]],
     data |-> << >>, arrived |-> << >>, inflight |-> 0, recv_errors |-> 0,
     interrupted |-> FALSE, ret |-> "none",
     status |-> [pc |-> "not_started", last_count |-> 0, new_packets |-> 0,
                 iter_used |-> 0, iter_pos |-> 0, reports |-> 0]]

\* listen_for_response of lane_change_test.py is not called: no socket; with it
\* the seconds passed since start_time, the datagrams still to arrive, whether
\* one was received and whether recvfrom raised an error
LfrOff ==
    [pc |-> "off", sock |-> "none", elapsed |-> 0, inflight |-> 0, got |-> FALSE,
     raised |-> FALSE]

\* no sending tool is run
SenderOff ==
    [tool |-> "none", pc |-> "off", cmds |-> << >>, listen_from |-> 0, listen_last |-> FALSE,
     i |-> 0, sendto_calls |-> << >>, transmitted |-> << >>, returns |-> << >>,
     heard |-> "none", listened |-> << >>, lfr |-> LfrOff]

\* resim_lane_change.py lines 32-33, ResimLaneChanger.__init__: cycle_active
\* False, cycle_thread None (0); no worker thread exists; with it the caller's
\* position, the number of calls it made, the method it called last and what
\* its calls returned, and the arguments it starts the cycle with.  The
\* object is not constructed in the other programs.
ChangerOff ==
    [pc |-> "off", cycle_active |-> FALSE, cycle_thread |-> 0, workers |-> << >>,
     calls |-> 0, interval |-> 5, alternate_direction |-> TRUE, last |-> << >>,
     op |-> "none", returns |-> << >>, agent_id |-> 10]

\* resim_simulator.py is not run: no socket, no command received, nothing
\* sent; with it the listener of lane_change_test.py that may hear what the
\* simulator sends
SimOff ==
    [pc |-> "off", send_port |-> 0, inflight |-> 0, data |-> << >>, response |-> << >>,
     command_count |-> 0, received |-> << >>, sent |-> << >>, send_failed |-> {},
     heard |-> << >>]

\* udp_forwarder.py is not run: forward_count 0, nothing received, sendto not
\* called
FwdOff ==
    [pc |-> "off", inflight |-> 0, data |-> << >>, forward_count |-> 0,
     received |-> << >>, sendto_calls |-> << >>, recv_errors |-> 0]

\* no ResimEnv is constructed.  gymEvn.py lines 31, 56-57: agent_id,
\* max_steps = 1000, current_step = 0; with it the caller's position, the
\* number of calls of reset and step it made, the method called last with its
\* action, current_step before that call, what the call gave to
\* _send_command and whether it was sent, and the value of truncated that
\* step returned
EnvOff ==
    [pc |-> "off", agent_id |-> 10, max_steps |-> 1000, current_step |-> 0, calls |-> 0,
     call |-> "none", action |-> << 0, 0, 0, 0 >>, before |-> 0, sends |-> << >>,
     truncated |-> FALSE]

\* display_status: last_total = 0 (line 237); the other locals are not bound
\* yet; the thread is not started
StatusLocals ==
    [pc |-> "not_started", last_total |-> 0, current_total |-> 0, packets_per_period |-> 0,
     last_time |-> 0, counts |-> << >>, recent |-> << >>]

(***************************************************************************)
(* udp_receiver.py: the process                                            *)
(***************************************************************************)

\* DEFAULT_PORTS = [20000, 20001]
DEFAULT_PORTS == << 20000, 20001 >>

AllPorts == {DEFAULT_PORTS[i] : i \in DOMAIN DEFAULT_PORTS}

\* the datagrams that may arrive at a listened port: start simulation ('CS')
\* and a 1-byte datagram
NetFrames == { B_CS, << 88 >> }

\* how many datagrams arrive in a run, over all ports
MaxFrames == 2

\* len(stats['last_commands']) > 100, stats['last_commands'][-100:]
LAST_COMMANDS_MAX == 100

EmptyDict == [k \in {} |-> 0]

\* d.get(k, 0)
DictGet(d, k) == IF k \in DOMAIN d THEN d[k] ELSE 0

\* d[k] = v
DictSet(d, k, v) == [q \in (DOMAIN d) \cup {k} |-> IF q = k THEN v ELSE d[q]]

\* lines 32-37; last_packet_time 0 stands for None
StatsAtImport ==
    [total_packets |-> 0, last_packet_time |-> 0, command_counts |-> EmptyDict,
     last_commands |-> << >>]

NoEntry == [time |-> 0, port |-> 0, data |-> << >>, info |-> NoResult]

\* a udp_listener thread's locals; a local is put back to its initial value
\* once the code no longer reads it
ListenerLocals ==
    [pc |-> "init", data |-> << >>, tmp |-> 0, ref |-> 0, entry |-> NoEntry, slice |-> << >>]

\* lines 182-188: the dict appended to stats['last_commands'] (its 'from', the
\* sender's address, is left out)
MakeEntry(time, port, data) ==
    [time |-> time, port |-> port, data |-> Hexlify(data), info |-> parse_resim_data(data)]

TruncateToOldest(lst) == Take(lst, LAST_COMMANDS_MAX)

\* line 192: stats['last_commands'][-100:]
TruncateToNewest(lst) == LastN(lst, LAST_COMMANDS_MAX)

CountsCommandType_4(data) == Len(data) >= 4

\* line 195: if len(data) >= 2
CountsCommandType(data) == Len(data) >= 2

\* line 197: data[:2].decode('ascii', errors='replace')
CommandType(data) == DecodeAscii(Slice(data, 0, 2))

\* the process is alive: daemon threads end when main returns
ProcessAlive == main.pc # "exited"

At(p, pc) == ProcessAlive /\ listener[p].pc = pc

Goto(p, pc) == listener' = [listener EXCEPT ![p].pc = pc]

(* main *)

\* lines 326-333: thread.start() of the next port's listener
StartListener ==
    /\ main.pc = "start_listeners"
    /\ main.next <= Len(ports)
    /\ listener' = [listener EXCEPT ![ports[main.next]].pc = "bind"]
    /\ main' = [main EXCEPT !.next = main.next + 1]
    /\ UNCHANGED << simulator, fwd, env, sender, changer, codec, enc, updre, status, ports, running, stats, list_id, clock, delivered, inflight >>

\* lines 336-340: the status thread is started, main enters its sleep loop
StartStatus ==
    /\ main.pc = "start_listeners"
    /\ main.next > Len(ports)
    /\ main' = [main EXCEPT !.pc = "wait"]
    /\ status' = [status EXCEPT !.pc = "while"]
    /\ UNCHANGED << simulator, fwd, env, sender, changer, codec, enc, updre, ports, running, stats, list_id, clock, listener, delivered, inflight >>

\* lines 343-346: KeyboardInterrupt in the sleep loop; running = False; break.
\* main declares no "global running", so the assignment binds a local of main
\* and the module-level flag keeps its value.
Interrupt ==
    /\ main.pc = "wait"
    /\ main' = [main EXCEPT !.pc = "L352", !.running = "False"]
    /\ UNCHANGED << simulator, fwd, env, sender, changer, codec, enc, updre, status, ports, running, stats, list_id, clock, listener, delivered, inflight >>

\* lines 352-354: running = False (main's local again); time.sleep(1); main
\* returns and the process ends, its daemon threads with it
MainExit ==
    /\ main.pc = "L352"
    /\ main' = [main EXCEPT !.pc = "exited", !.running = "False"]
    /\ UNCHANGED << simulator, fwd, env, sender, changer, codec, enc, updre, status, ports, running, stats, list_id, clock, listener, delivered, inflight >>

(* udp_listener(ip, port, log_file), the thread of port p *)

\* lines 162-166: socket(), bind(), settimeout(0.5)
Bind(p) ==
    /\ At(p, "bind")
    /\ Goto(p, "while")
    /\ UNCHANGED << simulator, fwd, env, sender, changer, codec, enc, updre, status, ports, running, stats, list_id, clock, main, delivered, inflight >>

\* a listener that would bind again after a failed bind
BindFails_retries(p) ==
    /\ ProcessAlive
    /\ listener[p].pc \in {"bind", "bind_failed"}
    /\ Goto(p, IF listener[p].pc = "bind" THEN "bind_failed" ELSE "bind")
    /\ UNCHANGED << simulator, fwd, env, sender, changer, codec, enc, updre, status, ports, running, stats, list_id, clock, main, delivered, inflight >>

\* lines 227-233: bind raises; the error is logged and the thread ends
BindFails(p) ==
    /\ At(p, "bind")
    /\ Goto(p, "bind_failed")
    /\ UNCHANGED << simulator, fwd, env, sender, changer, codec, enc, updre, status, ports, running, stats, list_id, clock, main, delivered, inflight >>

\* line 169: while running; lines 224-225 when it is false: sock.close()
While(p) ==
    /\ At(p, "while")
    /\ IF running THEN Goto(p, "recvfrom") ELSE Goto(p, "closed")
    /\ UNCHANGED << simulator, fwd, env, sender, changer, codec, enc, updre, status, ports, running, stats, list_id, clock, main, delivered, inflight >>

\* lines 172, 217-219: recvfrom times out after 0.5 s
RecvTimeout(p) ==
    /\ At(p, "recvfrom")
    /\ Goto(p, "while")
    /\ UNCHANGED << simulator, fwd, env, sender, changer, codec, enc, updre, status, ports, running, stats, list_id, clock, main, delivered, inflight >>

\* lines 172, 220-222: recvfrom raises an error that is not socket.timeout;
\* the handler inside the loop logs it, sleeps 1 s and the loop goes on
RecvError(p) ==
    /\ At(p, "recvfrom")
    /\ Goto(p, "while")
    /\ UNCHANGED << simulator, fwd, env, sender, changer, codec, enc, updre, status, ports, running, stats, list_id, clock, main, delivered, inflight >>

\* line 172: recvfrom returns a datagram
RecvData(p, frames) ==
    /\ At(p, "recvfrom")
    /\ inflight > 0
    /\ inflight' = inflight - 1
    /\ \E f \in frames :
          /\ listener' = [listener EXCEPT ![p].pc = "L175_read", ![p].data = f]
          /\ delivered' = [delivered EXCEPT ![p] = Append(@, f)]
    /\ UNCHANGED << simulator, fwd, env, sender, changer, codec, enc, updre, status, ports, running, stats, list_id, clock, main >>

\* line 175: stats['total_packets'] += 1, the read
ReadTotal(p) ==
    /\ At(p, "L175_read")
    /\ listener' = [listener EXCEPT ![p].pc = "L175_write", ![p].tmp = stats.total_packets]
    /\ UNCHANGED << simulator, fwd, env, sender, changer, codec, enc, updre, status, ports, running, stats, list_id, clock, main, delivered, inflight >>

\* line 175: stats['total_packets'] += 1, the store
WriteTotal(p) ==
    /\ At(p, "L175_write")
    /\ stats' = [stats EXCEPT !.total_packets = listener[p].tmp + 1]
    /\ listener' = [listener EXCEPT ![p].pc = "L176", ![p].tmp = 0]
    /\ UNCHANGED << simulator, fwd, env, sender, changer, codec, enc, updre, status, ports, running, list_id, clock, main, delivered, inflight >>

\* line 176: stats['last_packet_time'] = datetime.now()
WriteTime(p) ==
    /\ At(p, "L176")
    /\ clock' = clock + 1
    /\ stats' = [stats EXCEPT !.last_packet_time = clock + 1]
    /\ Goto(p, "L182_build")
    /\ UNCHANGED << simulator, fwd, env, sender, changer, codec, enc, updre, status, ports, running, list_id, main, delivered, inflight >>

\* lines 179-188: info = parse_resim_data(data); stats['last_commands'] is
\* evaluated (the list object) and the dict is built from stats['last_packet_time']
BuildEntry(p) ==
    /\ At(p, "L182_build")
    /\ listener' = [listener EXCEPT
            ![p].pc = "L182_append",
            ![p].ref = list_id,
            ![p].entry = MakeEntry(stats.last_packet_time, p, listener[p].data)]
    /\ UNCHANGED << simulator, fwd, env, sender, changer, codec, enc, updre, status, ports, running, stats, list_id, clock, main, delivered, inflight >>

\* a listener that would put the new dict in front of the list
AppendEntry_front(p) ==
    /\ At(p, "L182_append")
    /\ stats' = IF listener[p].ref = list_id
                THEN [stats EXCEPT !.last_commands = << listener[p].entry >> \o @]
                ELSE stats
    /\ listener' = [listener EXCEPT ![p].pc = "L191", ![p].ref = 0, ![p].entry = NoEntry]
    /\ UNCHANGED << simulator, fwd, env, sender, changer, codec, enc, updre, status, ports, running, list_id, clock, main, delivered, inflight >>

\* line 182: .append(...) on the list object evaluated before; when
\* stats['last_commands'] was rebound meanwhile, that object is no longer the
\* one the dict holds
AppendEntry(p) ==
    /\ At(p, "L182_append")
    /\ stats' = IF listener[p].ref = list_id
                THEN [stats EXCEPT !.last_commands = Append(@, listener[p].entry)]
                ELSE stats
    /\ listener' = [listener EXCEPT ![p].pc = "L191", ![p].ref = 0, ![p].entry = NoEntry]
    /\ UNCHANGED << simulator, fwd, env, sender, changer, codec, enc, updre, status, ports, running, list_id, clock, main, delivered, inflight >>

\* line 191: if len(stats['last_commands']) > 100
CheckLength(p) ==
    /\ At(p, "L191")
    /\ IF Len(stats.last_commands) > LAST_COMMANDS_MAX
       THEN Goto(p, "L192_slice")
       ELSE Goto(p, "L195")
    /\ UNCHANGED << simulator, fwd, env, sender, changer, codec, enc, updre, status, ports, running, stats, list_id, clock, main, delivered, inflight >>

\* line 192: stats['last_commands'][-100:], a new list
SliceList(p) ==
    /\ At(p, "L192_slice")
    /\ listener' = [listener EXCEPT
            ![p].pc = "L192_store", ![p].slice = TruncateToNewest(stats.last_commands)]
    /\ UNCHANGED << simulator, fwd, env, sender, changer, codec, enc, updre, status, ports, running, stats, list_id, clock, main, delivered, inflight >>

\* line 192: stats['last_commands'] = <the new list>
StoreList(p) ==
    /\ At(p, "L192_store")
    /\ stats' = [stats EXCEPT !.last_commands = listener[p].slice]
    /\ list_id' = list_id + 1
    /\ listener' = [listener EXCEPT ![p].pc = "L195", ![p].slice = << >>]
    /\ UNCHANGED << simulator, fwd, env, sender, changer, codec, enc, updre, status, ports, running, clock, main, delivered, inflight >>

\* lines 195-201: if len(data) >= 2: cmd_type = ...; the read
\* stats['command_counts'].get(cmd_type, 0).  A shorter datagram goes on to
\* the logging of lines 204-215 and back to the loop's test.
ReadCount(p) ==
    /\ At(p, "L195")
    /\ IF CountsCommandType(listener[p].data)
       THEN listener' = [listener EXCEPT
               ![p].pc = "L201_store",
               ![p].tmp = DictGet(stats.command_counts, CommandType(listener[p].data))]
       ELSE listener' = [listener EXCEPT ![p].pc = "while", ![p].data = << >>]
    /\ UNCHANGED << simulator, fwd, env, sender, changer, codec, enc, updre, status, ports, running, stats, list_id, clock, main, delivered, inflight >>

\* line 201: stats['command_counts'][cmd_type] = ... + 1; then the logging of
\* lines 204-215 and back to the loop's test
StoreCount(p) ==
    /\ At(p, "L201_store")
    /\ stats' = [stats EXCEPT !.command_counts =
            DictSet(@, CommandType(listener[p].data), listener[p].tmp + 1)]
    /\ listener' = [listener EXCEPT ![p].pc = "while", ![p].data = << >>, ![p].tmp = 0]
    /\ UNCHANGED << simulator, fwd, env, sender, changer, codec, enc, updre, status, ports, running, list_id, clock, main, delivered, inflight >>

\* one step of the thread of port p
ListenerStep(p, frames) ==
    \/ Bind(p)
    \/ BindFails(p)
    \/ While(p)
    \/ RecvTimeout(p)
    \/ RecvError(p)
    \/ RecvData(p, frames)
    \/ ReadTotal(p)
    \/ WriteTotal(p)
    \/ WriteTime(p)
    \/ BuildEntry(p)
    \/ AppendEntry(p)
    \/ CheckLength(p)
    \/ SliceList(p)
    \/ StoreList(p)
    \/ ReadCount(p)
    \/ StoreCount(p)

(* display_status(), the status thread *)

\* list(reversed(lst))
Reversed(lst) == [i \in 1..Len(lst) |-> lst[Len(lst) + 1 - i]]

\* stats['last_commands'][-5:]
RECENT_SHOWN == 5

StatusAt(pc) == ProcessAlive /\ status.pc = pc

\* lines 240-242: while running; time.sleep(5)
StatusWhile ==
    /\ StatusAt("while")
    /\ status' = [status EXCEPT !.pc = IF running THEN "L245" ELSE "done"]
    /\ UNCHANGED << simulator, fwd, env, sender, changer, codec, enc, updre, ports, running, stats, list_id, clock, main, listener, delivered, inflight >>

StatusReadTotal_resets ==
    /\ StatusAt("L245")
    /\ status' = [status EXCEPT !.pc = "L250",
                                !.current_total = stats.total_packets,
                                !.packets_per_period = stats.total_packets,
                                !.last_total = 0]
    /\ stats' = [stats EXCEPT !.total_packets = 0]
    /\ UNCHANGED << simulator, fwd, env, sender, changer, codec, enc, updre, ports, running, list_id, clock, main, listener, delivered, inflight >>

\* lines 245-247: current_total = stats['total_packets'];
\* packets_per_period = current_total - last_total; last_total = current_total
StatusReadTotal ==
    /\ StatusAt("L245")
    /\ status' = [status EXCEPT !.pc = "L250",
                                !.current_total = stats.total_packets,
                                !.packets_per_period = stats.total_packets - status.last_total,
                                !.last_total = stats.total_packets]
    /\ UNCHANGED << simulator, fwd, env, sender, changer, codec, enc, updre, ports, running, stats, list_id, clock, main, listener, delivered, inflight >>

\* lines 250-265: last_time = stats['last_packet_time']; the first lines of
\* the report are logged
StatusReadTime ==
    /\ StatusAt("L250")
    /\ status' = [status EXCEPT !.pc = "L268", !.last_time = stats.last_packet_time]
    /\ UNCHANGED << simulator, fwd, env, sender, changer, codec, enc, updre, ports, running, stats, list_id, clock, main, listener, delivered, inflight >>

\* lines 268-271: sorted(stats['command_counts'].items(), ...) copies the
\* items into a new list in one call; the loop logs the copy
StatusCounts ==
    /\ StatusAt("L268")
    /\ status' = [status EXCEPT !.pc = "L274", !.counts = stats.command_counts]
    /\ UNCHANGED << simulator, fwd, env, sender, changer, codec, enc, updre, ports, running, stats, list_id, clock, main, listener, delivered, inflight >>

\* lines 274-281: reversed(stats['last_commands'][-5:]), a copy of the last
\* entries; the loop logs the copy
StatusRecent ==
    /\ StatusAt("L274")
    /\ status' = [status EXCEPT !.pc = "L284",
                                !.recent = Reversed(LastN(stats.last_commands, RECENT_SHOWN))]
    /\ UNCHANGED << simulator, fwd, env, sender, changer, codec, enc, updre, ports, running, stats, list_id, clock, main, listener, delivered, inflight >>

\* lines 284-294: the warning after 30 s without a datagram; the report is
\* done and the loop tests running again
StatusDone ==
    /\ StatusAt("L284")
    /\ status' = [StatusLocals EXCEPT !.pc = "while", !.last_total = status.last_total]
    /\ UNCHANGED << simulator, fwd, env, sender, changer, codec, enc, updre, ports, running, stats, list_id, clock, main, listener, delivered, inflight >>

\* one step of the status thread
StatusStep ==
    \/ StatusWhile
    \/ StatusReadTotal
    \/ StatusReadTime
    \/ StatusCounts
    \/ StatusRecent
    \/ StatusDone

\* one step of main
MainStep == StartListener \/ StartStatus \/ MainExit

(* the states the process starts from *)

CodecOff ==
    [phase |-> "off", origin |-> "none", cmd |-> NoCommand, wire |-> << >>, result |-> NoResult]

\* the module is imported and main is about to start the listeners of pts;
\* n datagrams will arrive
AtStart(pts, n) ==
    /\ codec = CodecOff
    /\ ports = pts
    /\ running = TRUE
    /\ stats = StatsAtImport
    /\ list_id = 0
    /\ clock = 0
    /\ main = [pc |-> "start_listeners", running |-> "unbound", next |-> 1]
    /\ status = StatusLocals
    /\ listener = [p \in AllPorts |-> ListenerLocals]
    /\ delivered = [p \in AllPorts |-> << >>]
    /\ inflight = n
    /\ enc = EncOff
    /\ updre = UpdreOff
    /\ sender = SenderOff
    /\ changer = ChangerOff
    /\ simulator = SimOff
    /\ fwd = FwdOff
    /\ env = EnvOff

\* the port's listeners are bound and main sleeps; the listener of the first
\* port has processed done 'CS' datagrams, one after the other; n more
\* datagrams will arrive
AfterFrames(pts, done, n) ==
    /\ codec = CodecOff
    /\ ports = pts
    /\ running = TRUE
    /\ stats = [total_packets |-> done, last_packet_time |-> done,
                command_counts |-> DictSet(EmptyDict, CommandType(B_CS), done),
                last_commands |-> [i \in 1..done |-> MakeEntry(i, pts[1], B_CS)]]
    /\ list_id = 0
    /\ clock = done
    /\ main = [pc |-> "wait", running |-> "unbound", next |-> Len(pts) + 1]
    /\ status = [StatusLocals EXCEPT !.pc = "while"]
    /\ listener = [p \in AllPorts |->
            IF \E i \in DOMAIN pts : pts[i] = p
            THEN [ListenerLocals EXCEPT !.pc = "while"]
            ELSE ListenerLocals]
    /\ delivered = [p \in AllPorts |-> IF p = pts[1] THEN [i \in 1..done |-> B_CS] ELSE << >>]
    /\ inflight = n
    /\ enc = EncOff
    /\ updre = UpdreOff
    /\ sender = SenderOff
    /\ changer = ChangerOff
    /\ simulator = SimOff
    /\ fwd = FwdOff
    /\ env = EnvOff

\* the list of recent commands is at its limit
Warm == LAST_COMMANDS_MAX

Init == AtStart(DEFAULT_PORTS, MaxFrames) \/ AfterFrames(DEFAULT_PORTS, Warm, MaxFrames)

Next ==
    \/ MainStep
    \/ Interrupt
    \/ \E p \in AllPorts : ListenerStep(p, NetFrames)

Spec == Init /\ [][Next]_vars

\* The threads of a running process are scheduled again and again, and main
\* goes on once it can; nothing makes the user press Ctrl+C.
Fairness ==
    /\ WF_vars(MainStep)
    /\ \A p \in AllPorts : WF_vars(ListenerStep(p, NetFrames))

FairSpec == Init /\ [][Next]_vars /\ Fairness

(* two listeners and three datagrams *)

\* how many datagrams arrive in a run in which one listener's update is
\* overtaken by two updates of the other
MaxFramesRace == 3

InitRace ==
    \/ AtStart(DEFAULT_PORTS, MaxFramesRace)
    \/ AfterFrames(DEFAULT_PORTS, Warm, 1)

NextRace ==
    \/ MainStep
    \/ Interrupt
    \/ \E p \in AllPorts : ListenerStep(p, {B_CS})

SpecRace == InitRace /\ [][NextRace]_vars

(* one listener: main --ports 20000 *)

SinglePort == << DEFAULT_PORTS[1] >>

\* the datagrams that may arrive at the single port: those of NetFrames,
\* LaneChange(10, 0, 1), and two bytes of which the first is not ASCII
SingleFrames == NetFrames \cup { create_lane_change_command(10, 0, 1), << 200, 76 >> }

\* how many datagrams arrive in a run of the single listener
MaxFramesSingle == 3

InitSingle ==
    \/ AtStart(SinglePort, MaxFramesSingle)
    \/ AfterFrames(SinglePort, Warm - 2, MaxFramesSingle)
    \/ AfterFrames(SinglePort, Warm, MaxFramesSingle)

NextSingle ==
    \/ MainStep
    \/ Interrupt
    \/ \E p \in AllPorts : ListenerStep(p, SingleFrames)

SpecSingle == InitSingle /\ [][NextSingle]_vars

(***************************************************************************)
(* updre.py: UDPReceiver.  The thread that calls start() runs the receive  *)
(* loop; start() starts the daemon thread _status_display_thread.          *)
(***************************************************************************)

\* updre.py line 14-16, main(): port 20000; the datagrams that may arrive:
\* an 'FCAL' lane change of 16 bytes, a test string, and the 2-byte 'CS'
UpdreFrames ==
    { B_FCAL \o struct_pack_i(10) \o struct_pack_i(0) \o struct_pack_i(1),
      B_TEST_ \o << 72, 73 >>,
      B_CS }

\* how many datagrams arrive in a run of the UDPReceiver
MaxFramesUpdre == 3

\* the process is alive: start() has not returned to main
UpdreAlive == updre.pc \notin {"not_run", "setup_failed", "returned"}

\* line 114: if len(data) >= 4
HasCommandId(data) == Len(data) >= 4

\* line 116: data[:4].decode('ascii', errors='replace')
CommandId(data) == DecodeAscii(Slice(data, 0, 4))

\* a stop() that would leave the socket as it is
Stopped_open(u) == [u EXCEPT !.pc = "returned", !.running = FALSE, !.ret = "True"]

\* lines 98-106, stop(), and start() returning True (line 96)
Stopped(u) ==
    [u EXCEPT !.pc = "returned", !.running = FALSE, !.socket = "None", !.ret = "True"]

(* start() *)

\* lines 56, 42-49: setup() binds the socket
USetup ==
    /\ updre.pc = "start"
    /\ updre' = [updre EXCEPT !.pc = "L59", !.socket = "open"]
    /\ UNCHANGED << simulator, fwd, env, sender, changer, codec, enc, receiverVars >>

\* lines 50-52, 56-57: setup() fails, start() returns False.  When it is
\* bind that raised, self.socket holds the socket that was created; nothing
\* closes it.
USetupFails ==
    /\ updre.pc = "start"
    /\ \E sock \in {"None", "unbound"} :
          updre' = [updre EXCEPT !.pc = "setup_failed", !.socket = sock, !.ret = "False"]
    /\ UNCHANGED << simulator, fwd, env, sender, changer, codec, enc, receiverVars >>

\* lines 59-65: self.running = True; the status thread is started
UStart ==
    /\ updre.pc = "L59"
    /\ updre' = [updre EXCEPT !.pc = "while", !.running = TRUE, !.status.pc = "while"]
    /\ UNCHANGED << simulator, fwd, env, sender, changer, codec, enc, receiverVars >>

\* line 72: while self.running; leaving the loop runs the finally clause
UWhile ==
    /\ updre.pc = "while"
    /\ updre' = IF updre.running THEN [updre EXCEPT !.pc = "recvfrom"] ELSE Stopped(updre)
    /\ UNCHANGED << simulator, fwd, env, sender, changer, codec, enc, receiverVars >>

\* lines 75, 86-88: recvfrom times out after 0.5 s
URecvTimeout ==
    /\ updre.pc = "recvfrom"
    /\ updre' = [updre EXCEPT !.pc = "while"]
    /\ UNCHANGED << simulator, fwd, env, sender, changer, codec, enc, receiverVars >>

\* line 75: recvfrom returns a datagram
URecvData ==
    /\ updre.pc = "recvfrom"
    /\ updre.inflight > 0
    /\ \E f \in UpdreFrames :
          updre' = [updre EXCEPT !.pc = "L78", !.data = f, !.arrived = Append(@, f),
                                 !.inflight = @ - 1]
    /\ UNCHANGED << simulator, fwd, env, sender, changer, codec, enc, receiverVars >>

\* lines 75, 92-96: recvfrom raises an error that is not socket.timeout (an
\* OSError such as a connection reset or a datagram larger than the buffer).
\* The try inside the loop has no handler for it; the handler of line 92 is
\* outside the loop; finally calls stop() and start() returns.
URecvError ==
    /\ updre.pc = "recvfrom"
    /\ updre' = [Stopped(updre) EXCEPT !.recv_errors = @ + 1]
    /\ UNCHANGED << simulator, fwd, env, sender, changer, codec, enc, receiverVars >>

\* a count that would leave the bytes out
UCountStats_packets ==
    /\ updre.pc = "L78"
    /\ updre' = [updre EXCEPT !.pc = "L80", !.stats.total_packets = @ + 1]
    /\ UNCHANGED << simulator, fwd, env, sender, changer, codec, enc, receiverVars >>

\* lines 78-79: total_packets += 1; total_bytes += len(data)
UCountStats ==
    /\ updre.pc = "L78"
    /\ updre' = [updre EXCEPT !.pc = "L80",
                              !.stats.total_packets = @ + 1,
                              !.stats.total_bytes = @ + Len(updre.data)]
    /\ UNCHANGED << simulator, fwd, env, sender, changer, codec, enc, receiverVars >>

\* lines 80-81: self.packet_count += 1; self.last_packet_time = now()
UCountPackets ==
    /\ updre.pc = "L80"
    /\ updre' = [updre EXCEPT !.pc = "L84", !.packet_count = @ + 1]
    /\ UNCHANGED << simulator, fwd, env, sender, changer, codec, enc, receiverVars >>

\* lines 84, 108-136: _process_data counts the command id of a datagram of 4
\* bytes or more (a new key is inserted with 1), prints, parses and logs
UProcessData ==
    /\ updre.pc = "L84"
    /\ updre' = [updre EXCEPT
            !.pc = "while", !.data = << >>,
            !.stats.command_types =
                IF HasCommandId(updre.data)
                THEN DictSet(@, CommandId(updre.data), DictGet(@, CommandId(updre.data)) + 1)
                ELSE @]
    /\ UNCHANGED << simulator, fwd, env, sender, changer, codec, enc, receiverVars >>

\* lines 90-91, 94-96: Ctrl+C in the loop; finally calls stop()
UInterrupt ==
    /\ updre.pc \in {"while", "recvfrom", "L78", "L80", "L84"}
    /\ updre' = [Stopped(updre) EXCEPT !.interrupted = TRUE]
    /\ UNCHANGED << simulator, fwd, env, sender, changer, codec, enc, receiverVars >>

(* _status_display_thread() *)

UStatusAt(pc) == UpdreAlive /\ updre.status.pc = pc

\* lines 205-206: while self.running; time.sleep(5)
UStatusWhile ==
    /\ UStatusAt("while")
    /\ updre' = [updre EXCEPT !.status.pc = IF updre.running THEN "L212" ELSE "done"]
    /\ UNCHANGED << simulator, fwd, env, sender, changer, codec, enc, receiverVars >>

\* line 212: new_packets = self.packet_count - last_count
UStatusRate ==
    /\ UStatusAt("L212")
    /\ updre' = [updre EXCEPT !.status.pc = "L216",
                              !.status.new_packets = updre.packet_count - updre.status.last_count]
    /\ UNCHANGED << simulator, fwd, env, sender, changer, codec, enc, receiverVars >>

\* lines 216-220: last_count = self.packet_count; if self.packet_count > 0
UStatusLast ==
    /\ UStatusAt("L216")
    /\ updre' = [updre EXCEPT
            !.status.last_count = updre.packet_count,
            !.status.new_packets = 0,
            !.status.pc = IF updre.packet_count > 0 THEN "L234" ELSE "while"]
    /\ UNCHANGED << simulator, fwd, env, sender, changer, codec, enc, receiverVars >>

\* lines 221-236: the report's lines; if self.stats["command_types"]: the for
\* statement takes an iterator of the dict's items, which notes the dict's size
UStatusIter ==
    /\ UStatusAt("L234")
    /\ updre' =
         IF DOMAIN updre.stats.command_types # {}
         THEN [updre EXCEPT !.status.pc = "L236",
                            !.status.iter_used = Cardinality(DOMAIN updre.stats.command_types),
                            !.status.iter_pos = 0]
         ELSE [updre EXCEPT !.status.pc = "while", !.status.reports = Min(@ + 1, 1)]
    /\ UNCHANGED << simulator, fwd, env, sender, changer, codec, enc, receiverVars >>

\* lines 236-237: next() of the items iterator, then print.  A dict whose
\* size is no longer the size the iterator noted makes next() raise
\* RuntimeError (dictionary changed size during iteration); the function has
\* no handler, so the thread ends.
UStatusNext ==
    /\ UStatusAt("L236")
    /\ updre' =
         IF Cardinality(DOMAIN updre.stats.command_types) # updre.status.iter_used
         THEN [updre EXCEPT !.status.pc = "crashed", !.status.iter_used = 0,
                            !.status.iter_pos = 0]
         ELSE IF updre.status.iter_pos = updre.status.iter_used
         THEN [updre EXCEPT !.status.pc = "while", !.status.iter_used = 0,
                            !.status.iter_pos = 0, !.status.reports = Min(@ + 1, 1)]
         ELSE [updre EXCEPT !.status.iter_pos = @ + 1]
    /\ UNCHANGED << simulator, fwd, env, sender, changer, codec, enc, receiverVars >>

UpdreMain ==
    \/ USetup
    \/ USetupFails
    \/ UStart
    \/ UWhile
    \/ URecvTimeout
    \/ URecvData
    \/ URecvError
    \/ UCountStats
    \/ UCountPackets
    \/ UProcessData
    \/ UInterrupt

UpdreStatus ==
    \/ UStatusWhile
    \/ UStatusRate
    \/ UStatusLast
    \/ UStatusIter
    \/ UStatusNext

\* udp_receiver.py is imported but its main is not run
ReceiverOff ==
    /\ ports = DEFAULT_PORTS
    /\ running = TRUE
    /\ stats = StatsAtImport
    /\ list_id = 0
    /\ clock = 0
    /\ main = [pc |-> "not_run", running |-> "unbound", next |-> 1]
    /\ listener = [p \in AllPorts |-> ListenerLocals]
    /\ delivered = [p \in AllPorts |-> << >>]
    /\ inflight = 0
    /\ status = StatusLocals

\* updre.main(): receiver = UDPReceiver(port=port); receiver.start()
InitUpdre ==
    /\ codec = CodecOff
    /\ enc = EncOff
    /\ ReceiverOff
    /\ sender = SenderOff
    /\ changer = ChangerOff
    /\ simulator = SimOff
    /\ fwd = FwdOff
    /\ env = EnvOff
    /\ updre = [UpdreOff EXCEPT !.pc = "start", !.inflight = MaxFramesUpdre]

NextUpdre == UpdreMain \/ UpdreStatus

SpecUpdre == InitUpdre /\ [][NextUpdre]_vars

(* the status reports: udp_receiver with one listener and its status thread, *)
(* or a UDPReceiver of updre.py with its status thread                       *)

\* how many datagrams arrive in a run of udp_receiver with its status thread
MaxFramesStatus == 2

InitStatus ==
    \/ AtStart(SinglePort, MaxFramesStatus)
    \/ AfterFrames(SinglePort, Warm, MaxFramesStatus)
    \/ InitUpdre

NextStatus ==
    \/ MainStep
    \/ Interrupt
    \/ \E p \in AllPorts : ListenerStep(p, NetFrames)
    \/ StatusStep
    \/ UpdreMain
    \/ UpdreStatus

SpecStatus == InitStatus /\ [][NextStatus]_vars

(***************************************************************************)
(* The encoders of the sending tools applied to bounded arguments, and     *)
(* parse_resim_data applied to the bytes they produce                      *)
(***************************************************************************)

LaneChangeEncoders ==
    {"create_lane_change_command", "request_lane_change", "_create_lane_change_command"}

AssignedLaneChangeEncoders ==
    {"create_assigned_lane_change_command", "request_assigned_lane_change"}

StartSimulationEncoders == {"create_start_simulation_command", "_create_start_command"}

\* the call fails before any bytes are produced
EncoderFails(encoder, a) ==
    /\ encoder \in {"request_lane_change", "request_assigned_lane_change"}
    /\ request_lane_change_fails(a.direction, a.mode)

\* the bytes the encoder returns (or sends)
EncoderBytes(encoder, a) ==
    CASE encoder = "create_lane_change_command" ->
            create_lane_change_command(a.agent_id, a.direction, a.mode)
      [] encoder = "request_lane_change" ->
            request_lane_change(a.agent_id, a.direction, a.mode)
      [] encoder = "_create_lane_change_command" ->
            _create_lane_change_command(a.agent_id, a.direction, a.mode)
      [] encoder = "create_assigned_lane_change_command" ->
            create_assigned_lane_change_command(a.agent_id, a.direction, a.mode, a.distance)
      [] encoder = "request_assigned_lane_change" ->
            request_assigned_lane_change(a.agent_id, a.direction, a.mode, a.distance)
      [] encoder = "create_start_simulation_command" -> create_start_simulation_command
      [] encoder = "_create_start_command" -> _create_start_command

\* arguments given to the encoders: agent ids of both signs; directions and
\* modes inside and outside {0, 1}; distances 0, 0.5, 30, 50 and -1.5 metres
\* (in half metres)
EncAgentIds == {-1, 10, 99}

EncDirections == {-1, 0, 1, 2}

EncModes == {0, 1, 5}

EncDistances == {0, 1, 60, 100, -3}

NoArgs == [agent_id |-> 0, direction |-> 0, mode |-> 0, distance |-> 0]

EncCalls ==
    { [phase |-> "call", encoder |-> e, wire |-> << >>, result |-> NoResult,
       args |-> [agent_id |-> i, direction |-> d, mode |-> m, distance |-> 0]] :
         e \in LaneChangeEncoders, i \in EncAgentIds, d \in EncDirections, m \in EncModes }
    \cup
    { [phase |-> "call", encoder |-> e, wire |-> << >>, result |-> NoResult,
       args |-> [agent_id |-> i, direction |-> dm[1], mode |-> dm[2], distance |-> x]] :
         e \in AssignedLaneChangeEncoders, i \in EncAgentIds,
         dm \in EncDirections \X EncModes, x \in EncDistances }
    \cup
    { [phase |-> "call", encoder |-> e, wire |-> << >>, result |-> NoResult, args |-> NoArgs] :
         e \in StartSimulationEncoders }

InitEncoders ==
    /\ codec = CodecOff
    /\ updre = UpdreOff
    /\ ReceiverOff
    /\ sender = SenderOff
    /\ changer = ChangerOff
    /\ simulator = SimOff
    /\ fwd = FwdOff
    /\ env = EnvOff
    /\ enc \in EncCalls

\* the encoder is called with the arguments
EncodeCall ==
    /\ enc.phase = "call"
    /\ enc' = IF EncoderFails(enc.encoder, enc.args)
              THEN [enc EXCEPT !.phase = "failed"]
              ELSE [enc EXCEPT !.phase = "encoded", !.wire = EncoderBytes(enc.encoder, enc.args)]
    /\ UNCHANGED << simulator, fwd, env, sender, changer, codec, updre, receiverVars >>

\* udp_receiver.parse_resim_data(data) on the bytes sent
DecodeWire ==
    /\ enc.phase = "encoded"
    /\ enc' = [enc EXCEPT !.phase = "decoded", !.result = parse_resim_data(enc.wire)]
    /\ UNCHANGED << simulator, fwd, env, sender, changer, codec, updre, receiverVars >>

NextEncoders == EncodeCall \/ DecodeWire

SpecEncoders == InitEncoders /\ [][NextEncoders]_vars

(***************************************************************************)
(* The codec applied to bounded inputs                                     *)
(***************************************************************************)

INT32_MIN == -2147483647 - 1

INT32_MAX == 2147483647

\* agent ids given to the encoder: the int32 extremes, both signs, every byte position
AgentIds == {INT32_MIN, -65536, -256, -1, 0, 1, 10, 99, 255, 256, 65536, 16777216, INT32_MAX}

Directions == {0, 1}

Modes == {0, 1}

Commands == [agent_id : AgentIds, direction : Directions, mode : Modes]

\* n bytes of filler, 1, 2, ..., n
Filler(n) == [i \in 1..n |-> i]

\* frames given to the decoder as received
CodecFrames ==
    { << >>, << 67 >>,
      B_CL, B_CL \o Filler(11), B_RL, B_RL \o Filler(4), B_SS, B_SS \o Filler(3),
      B_TSPY, B_TSPY \o Filler(3),
      B_TSPY \o << 1, 0, 0, 0 >> \o << 72, 105 >>,
      B_TSPY \o << 255, 255, 255, 255 >>,
      B_RSd, B_RSd \o << 65 >>, B_RS \o << 1 >>, B_RS,
      B_RL \o << 10, 0, 0, 0, 1, 0, 0, 0, 0, 0, 0, 0 >>,
      B_RL \o << 10, 0, 0, 0, 0, 0, 0, 0, 2, 0, 0, 0 >>,
      B_RL \o << 99, 0, 0, 0, 0, 0, 0, 0, 1, 0, 0, 0 >>,
      B_RL \o << 255, 255, 255, 255, 2, 0, 0, 0, 3, 0, 0, 0 >>,
      B_RL \o << 0, 1, 0, 0, 1, 0, 0, 0, 7, 0, 0, 0 >> \o Filler(3),
      B_RL \o << 1, 0, 0, 0, 255, 255, 255, 255, 255, 255, 255, 255 >>,
      B_RL \o << 1, 0, 0, 0, 1, 1, 0, 0, 0, 0, 0, 128 >>,
      B_CL \o << 10, 0, 0, 0, 1, 0, 0, 0, 0, 0, 0, 0, 0, 0, 72, 66 >>,
      B_SS \o << 1, 0, 0, 0 >>, B_SS \o << 7, 0, 0, 0 >>,
      B_SS \o << 0, 0, 0, 0 >>, B_SS \o << 2, 0, 0, 0 >>, B_SS \o << 3, 0, 0, 0 >>,
      B_SS \o << 255, 255, 255, 255 >>, B_SS \o << 0, 0, 0, 128 >>, B_SS \o << 0, 1, 0, 0 >>,
      B_SS \o << 2, 0, 0, 0 >> \o Filler(3), B_SS \o << 1, 0, 0, 0 >> \o << 255, 83 >>,
      B_RSd \o << 0 >>, B_RSd \o << 255, 0, 200 >>, B_RSd \o Filler(20),
      B_RSd \o B_TEST_, B_RSd \o B_CL \o Filler(12), << 82, 83, 68 >>,
      B_TEST_ \o << 104, 105 >>, B_TEST_ \o << 255 >>,
      B_TEST_, Take(B_TEST_, 4), << 116, 101, 115, 116, 95, 104, 105 >>,
      B_TEST_ \o << 195, 169 >>, B_TEST_ \o << 226, 130, 172 >>,
      B_TEST_ \o << 240, 159, 152, 128 >>, B_TEST_ \o << 226, 130 >>,
      B_TEST_ \o << 226, 65 >>, B_TEST_ \o << 192, 128 >>, B_TEST_ \o << 237, 160, 128 >>,
      B_TEST_ \o << 104, 128, 105 >>, B_TEST_ \o << 244, 144, 128, 128 >>,
      B_CS, B_CP, B_CR, B_AP \o Filler(5), B_AS, B_TS \o Filler(2), B_RP, B_RQ, B_CC,
      << 90, 90 >>, << 90, 90 >> \o Filler(28), << 90, 90 >> \o Filler(29),
      << 76, 67 >> \o Filler(12), << 195, 76 >>, << 255, 254, 1 >>, << 67, 200, 76 >>,
      << 195, 83 >>, << 67, 211 >>, << 210, 83, 100 >>, << 82, 83, 228 >>,
      << 84, 69, 83, 84, 223, 104 >>, << 195, 204 >> \o Filler(12) }

InitCodec ==
    /\ codec \in
        { [phase |-> "command", origin |-> "encoder", cmd |-> c, wire |-> << >>,
           result |-> NoResult] : c \in Commands }
        \cup
        { [phase |-> "frame", origin |-> "received", cmd |-> NoCommand, wire |-> f,
           result |-> NoResult] : f \in CodecFrames }
    /\ ports = DEFAULT_PORTS
    /\ running = TRUE
    /\ stats = StatsAtImport
    /\ list_id = 0
    /\ clock = 0
    /\ main = [pc |-> "not_run", running |-> "unbound", next |-> 1]
    /\ listener = [p \in AllPorts |-> ListenerLocals]
    /\ delivered = [p \in AllPorts |-> << >>]
    /\ inflight = 0
    /\ status = StatusLocals
    /\ enc = EncOff
    /\ updre = UpdreOff
    /\ sender = SenderOff
    /\ changer = ChangerOff
    /\ simulator = SimOff
    /\ fwd = FwdOff
    /\ env = EnvOff

\* create_lane_change_command(agent_id, direction, mode)
Encode ==
    /\ codec.phase = "command"
    /\ codec' = [codec EXCEPT
            !.wire = create_lane_change_command(codec.cmd.agent_id, codec.cmd.direction,
                                                codec.cmd.mode),
            !.phase = "frame"]
    /\ UNCHANGED << simulator, fwd, env, sender, changer, enc, updre, receiverVars >>

\* parse_resim_data(data)
Decode ==
    /\ codec.phase = "frame"
    /\ codec' = [codec EXCEPT !.result = parse_resim_data(codec.wire), !.phase = "decoded"]
    /\ UNCHANGED << simulator, fwd, env, sender, changer, enc, updre, receiverVars >>

NextCodec == Encode \/ Decode

SpecCodec == InitCodec /\ [][NextCodec]_vars

(***************************************************************************)
(* Properties of the codec (checked under SpecCodec)                       *)
(***************************************************************************)

\* the value of 4 bytes read as a little-endian signed 32-bit integer
SignedLE(b) ==
    b[1] + 256 * b[2] + 65536 * b[3] + 16777216 * (b[4] - (IF b[4] >= 128 THEN 256 ELSE 0))

Encoded == codec.origin = "encoder" /\ codec.phase \in {"frame", "decoded"}

Decoded == codec.phase = "decoded"

\* C1: the LaneChange encoder returns exactly 14 bytes, 'C' 'L' followed by
\* agentId, direction and mode as little-endian signed int32 in that order;
\* (10, 0, 1) encodes to 43 4C 0A 00 00 00 00 00 00 00 01 00 00 00.
C1_LaneChangeLayout ==
    Encoded =>
        /\ Len(codec.wire) = 14
        /\ \A i \in 1..14 : codec.wire[i] \in 0..255
        /\ codec.wire[1] = 67 /\ codec.wire[2] = 76
        /\ SignedLE(SubSeq(codec.wire, 3, 6)) = codec.cmd.agent_id
        /\ SignedLE(SubSeq(codec.wire, 7, 10)) = codec.cmd.direction
        /\ SignedLE(SubSeq(codec.wire, 11, 14)) = codec.cmd.mode
        /\ (codec.cmd = [agent_id |-> 10, direction |-> 0, mode |-> 1]
                => codec.wire = << 67, 76, 10, 0, 0, 0, 0, 0, 0, 0, 1, 0, 0, 0 >>)

C1_Witness ==
    /\ Encoded
    /\ codec.cmd = [agent_id |-> 10, direction |-> 0, mode |-> 1]
    /\ codec.wire = << 67, 76, 10, 0, 0, 0, 0, 0, 0, 0, 1, 0, 0, 0 >>

\* the direction and the mode a decoded lane-change request names
DirectionOf(label) == IF label = "left" THEN 0 ELSE IF label = "right" THEN 1 ELSE -1

ModeOf(label) == IF label = "check_risk" THEN 0 ELSE IF label = "force_change" THEN 1 ELSE -1

\* C2: decoding the bytes produced by the LaneChange encoder yields a
\* lane-change request with the same agentId, direction and mode.
C2_LaneChangeRoundTrip ==
    (Decoded /\ codec.origin = "encoder") =>
        /\ codec.result.kind = "LaneChangeCommand"
        /\ codec.result.agent_id = codec.cmd.agent_id
        /\ DirectionOf(codec.result.direction) = codec.cmd.direction
        /\ ModeOf(codec.result.mode) = codec.cmd.mode

C2_Witness ==
    /\ Decoded /\ codec.origin = "encoder"
    /\ codec.cmd = [agent_id |-> -1, direction |-> 1, mode |-> 0]
    /\ codec.result = [kind |-> "LaneChangeCommand", agent_id |-> -1,
                       direction |-> "right", mode |-> "check_risk"]

\* the frame starts with a prefix of the wire-format table and is shorter than
\* that prefix's minimum length
BelowMinimum(f) ==
    \/ StartsWith(f, B_CL) /\ Len(f) < 14
    \/ StartsWith(f, B_RL) /\ Len(f) < 14
    \/ StartsWith(f, B_SS) /\ Len(f) < 6
    \/ StartsWith(f, B_TSPY) /\ Len(f) < 8

\* the results that report a failure to parse
ErrorKinds ==
    {"PacketTooShort", "CLParseError", "RLParseError", "SimStatusUnparsed",
     "CounterTestUnparsed", "ParseError"}

C6_LongestPrefixFirst ==
    Decoded =>
        /\ (StartsWith(codec.wire, B_TSPY) /\ Len(codec.wire) >= 8) =>
            /\ codec.result.kind = "CounterTest"
            /\ codec.result.counter = SignedLE(SubSeq(codec.wire, 5, 8))
            /\ Len(codec.result.message) = Len(codec.wire) - 8
        /\ StartsWith(codec.wire, B_RSd) => codec.result.kind \in {"SyncSignal", "VehicleState"}

\* the prefixes parse_resim_data tests for
RegisteredPrefixes ==
    {B_RSd, B_TEST_, B_AP, B_AS, B_TS, B_TSPY, B_SS, B_CL, B_RL, B_CS, B_CP, B_CR,
     B_RS, B_RP, B_RQ, B_CC}

NoRegisteredPrefix(f) == \A p \in RegisteredPrefixes : ~StartsWith(f, p)

\* hex is the hex representation of the first Len(hex) \div 2 bytes of f
HexOf(hex, f) ==
    /\ Len(hex) % 2 = 0
    /\ Len(hex) <= 2 * Len(f)
    /\ \A k \in 1..(Len(hex) \div 2) : 16 * hex[2 * k - 1] + hex[2 * k] = f[k]

\* C7 as stated: a frame of 2 bytes or more with no registered prefix decodes
\* to Unrecognized carrying the hex of the entire frame, whatever its length.
C7_UnrecognizedWholeHex ==
    (Decoded /\ Len(codec.wire) >= 2 /\ NoRegisteredPrefix(codec.wire)) =>
        /\ codec.result.kind = "Unrecognized"
        /\ Len(codec.result.hex) = 2 * Len(codec.wire)
        /\ HexOf(codec.result.hex, codec.wire)

\* C7 amended: such a frame decodes to Unrecognized carrying the frame's length
\* and the first 60 hex digits of the frame (its first 30 bytes): the entire
\* frame's hex exactly when the frame has at most 30 bytes.
C7_UnrecognizedHexPrefix ==
    (Decoded /\ Len(codec.wire) >= 2 /\ NoRegisteredPrefix(codec.wire)) =>
        /\ codec.result.kind = "Unrecognized"
        /\ codec.result.size = Len(codec.wire)
        /\ Len(codec.result.hex) = (IF Len(codec.wire) <= 30 THEN 2 * Len(codec.wire) ELSE 60)
        /\ HexOf(codec.result.hex, codec.wire)

C7_Witness ==
    /\ Decoded
    /\ Len(codec.wire) = 31 /\ NoRegisteredPrefix(codec.wire)
    /\ codec.result.kind = "Unrecognized"
    /\ Len(codec.result.hex) = 60

(***************************************************************************)
(* Properties of the listeners                                             *)
(***************************************************************************)

\* the thread of port p is not in the middle of a datagram
Idle(p) == listener[p].pc \in {"init", "bind", "bind_failed", "while", "recvfrom", "closed"}

Quiescent == \A p \in AllPorts : Idle(p)

\* the thread of port p is inside the statistics update of lines 175-201
InUpdate(p) ==
    listener[p].pc \in {"L175_write", "L176", "L182_build", "L182_append", "L191",
                        "L192_slice", "L192_store", "L195", "L201_store"}

\* the datagrams received so far, each as << port, position in the port's order >>
Received == UNION { {<< p, i >> : i \in 1..Len(delivered[p])} : p \in AllPorts }

FrameOf(x) == delivered[x[1]][x[2]]

\* the first two bytes of a frame as text
KeyOfFrame(f) == [i \in 1..2 |-> IF f[i] < 128 THEN f[i] ELSE 65533]

\* the datagrams received so far that have a key, and those of key k
Keyed == {x \in Received : Len(FrameOf(x)) >= 2}

ReceivedUnder(k) == {x \in Keyed : KeyOfFrame(FrameOf(x)) = k}

KeysSeen == DOMAIN stats.command_counts \cup {KeyOfFrame(FrameOf(x)) : x \in Keyed}

RECURSIVE SumOver(_, _)
SumOver(d, keys) ==
    IF keys = {} THEN 0
    ELSE LET k == CHOOSE q \in keys : TRUE IN d[k] + SumOver(d, keys \ {k})

\* the sum of all per-key counts
SumOfCounts == SumOver(stats.command_counts, DOMAIN stats.command_counts)

\* C4 as stated: no lost updates. Once every listener has finished the
\* datagrams it received, the total count is the number of datagrams received
\* by all listeners and each per-key count is the number received under that key.
C4_NoLostUpdates ==
    Quiescent =>
        /\ stats.total_packets = Cardinality(Received)
        /\ \A k \in KeysSeen :
              DictGet(stats.command_counts, k) = Cardinality(ReceivedUnder(k))

\* once all listeners have finished, the recent list holds the newest
\* min(received, 100) records: none of them was dropped in favour of an older
\* one (records are stamped 1, 2, ... in the order they are made)
NewestKept ==
    Quiescent =>
        /\ Len(stats.last_commands) = Min(Cardinality(Received), 100)
        /\ \A j \in 1..Len(stats.last_commands) :
              stats.last_commands[j].time > Cardinality(Received) - 100

\* C5 as stated: the updates are serialized. No two listeners are inside the
\* statistics update at the same time, the recent list never holds more than
\* 100 entries, and no entry is dropped by another listener's truncation
\* while fewer than 100 newer ones exist.
C5_UpdatesSerialized ==
    /\ \A p, q \in AllPorts : p # q => ~(InUpdate(p) /\ InUpdate(q))
    /\ Len(stats.last_commands) <= 100
    /\ NewestKept

(* one listener (checked under SpecSingle) *)

\* the datagrams the single listener has received, in order
Arrived == delivered[ports[1]]

RecordComplete(p) == Idle(p) \/ listener[p].pc \in {"L195", "L201_store"}

\* the entry of the i-th datagram of the single listener
EntryOf(i) ==
    [time |-> i, port |-> ports[1], data |-> Hexlify(Arrived[i]),
     info |-> parse_resim_data(Arrived[i])]

\* C9: with one listener, after each record completes the recent list holds
\* exactly the min(n, 100) most recently recorded datagrams in arrival order
\* (n received so far): at most 100, the oldest evicted first.
C9_RecentIsNewestInOrder ==
    (\A p \in AllPorts : RecordComplete(p)) =>
        LET n == Len(Arrived)
            kept == IF n < 100 THEN n ELSE 100
        IN /\ Len(stats.last_commands) = kept
           /\ \A j \in 1..kept : stats.last_commands[j] = EntryOf(n - kept + j)

C9_Witness ==
    /\ Quiescent
    /\ Len(Arrived) = 102
    /\ Len(stats.last_commands) = 100
    /\ stats.last_commands[1].time = 3
    /\ stats.last_commands[100].time = 102

(* shutdown (checked under FairSpec) *)

\* main has executed its running = False
ShutdownRequested == main.running = "False"

\* no listener is in its receive loop with its socket open
ListenersClosed == \A p \in AllPorts : listener[p].pc \in {"init", "bind_failed", "closed"}

\* C10 as stated: once main requests shutdown, every listener eventually
\* leaves its receive loop and closes its socket.
C10_ShutdownClosesListeners == ShutdownRequested ~> ListenersClosed

(***************************************************************************)
(* Properties of the UDPReceiver of updre.py (checked under SpecUpdre)     *)
(***************************************************************************)

\* the thread that called start() is inside the receive loop of lines 72-88
InReceiveLoop == updre.pc \in {"while", "recvfrom", "L78", "L80", "L84"}

\* C11: an error raised while receiving a datagram, other than a timeout,
\* does not end the receive loop: unless the user interrupts, the listener
\* is still in its loop afterwards.
C11_ErrorKeepsLoopRunning ==
    (updre.recv_errors > 0 /\ ~updre.interrupted) => InReceiveLoop

\* C19: a status report that runs while the receive loop records datagrams
\* never fails: the status thread does not end with an exception, whatever
\* the interleaving of its reads with the inserts into the per-key counts.
C19_StatusReportSafe == updre.status.pc # "crashed"

(***************************************************************************)
(* Properties of the encoders (checked under SpecEncoders)                 *)
(***************************************************************************)

\* the encoder has produced bytes
Produced == enc.phase \in {"encoded", "decoded"}

\* direction in {0,1} (left, right) and mode in {0,1} (check risk, force)
InRange(a) == a.direction \in {0, 1} /\ a.mode \in {0, 1}

\* C12: each command kind has exactly one encoding: every LaneChange encoder
\* produces, for the same agent id, direction and mode, the same bytes as
\* every other LaneChange encoder, and every StartSimulation encoder the
\* same bytes as every other.
C12_OneEncodingPerCommand ==
    Produced =>
        /\ (enc.encoder \in LaneChangeEncoders /\ InRange(enc.args)) =>
              \A e \in LaneChangeEncoders :
                  ~EncoderFails(e, enc.args) => EncoderBytes(e, enc.args) = enc.wire
        /\ enc.encoder \in StartSimulationEncoders =>
              \A e \in StartSimulationEncoders : EncoderBytes(e, enc.args) = enc.wire

\* agentId, direction, mode as little-endian int32, then the distance as a
\* little-endian float32: 16 bytes
AssignedPayload(a) ==
    struct_pack_i(a.agent_id) \o struct_pack_i(a.direction) \o struct_pack_i(a.mode)
        \o struct_pack_f(a.distance)

\* C13: for direction and mode in {0,1} the AssignedLaneChange encoder
\* returns 'CL' (or the 4-byte prefix 'FCAL') followed by exactly the 16
\* payload bytes; with the 'CL' prefix the first 14 bytes are the LaneChange
\* encoding of the same agent id, direction and mode.
C13_AssignedLaneChangeLayout ==
    (Produced /\ enc.encoder \in AssignedLaneChangeEncoders /\ InRange(enc.args)) =>
        /\ enc.wire \in {B_CL \o AssignedPayload(enc.args), B_FCAL \o AssignedPayload(enc.args)}
        /\ StartsWith(enc.wire, B_CL) =>
              Take(enc.wire, 14) = create_lane_change_command(enc.args.agent_id,
                                        enc.args.direction, enc.args.mode)

\* C14: decoding the bytes of the AssignedLaneChange encoder yields a
\* lane-change request with the same agent id, direction and mode.
C14_AssignedLaneChangeRoundTrip ==
    (enc.phase = "decoded" /\ enc.encoder \in AssignedLaneChangeEncoders /\ InRange(enc.args)) =>
        /\ enc.result.kind = "LaneChangeCommand"
        /\ enc.result.agent_id = enc.args.agent_id
        /\ enc.result.direction = DirectionStr(enc.args.direction)
        /\ enc.result.mode = ModeStr(enc.args.mode)

\* C15: the LaneChange and AssignedLaneChange encoders produce no bytes for a
\* direction or a mode outside {0,1}.
C15_OutOfRangeRejected ==
    (Produced /\ enc.encoder \in LaneChangeEncoders \cup AssignedLaneChangeEncoders) =>
        InRange(enc.args)

(***************************************************************************)
(* More properties of the decoder (checked under SpecCodec)                *)
(***************************************************************************)

\* C16: every frame that starts with 'RL' and has 14 bytes or more decodes
\* to a lane-change result whose agentId is the little-endian int32 at bytes
\* 2..5, which reports success exactly when the int32 at bytes 6..9 is 1, and
\* whose reason code is the int32 at bytes 10..13, passed through unchanged;
\* 52 4C 0A 00 00 00 01 00 00 00 00 00 00 00 gives agentId 10, success, 0.
C16_LaneChangeResultDecoded ==
    (Decoded /\ StartsWith(codec.wire, B_RL) /\ Len(codec.wire) >= 14) =>
        /\ codec.result.kind = "LaneChangeResponse"
        /\ codec.result.agent_id = SignedLE(SubSeq(codec.wire, 3, 6))
        /\ (codec.result.result = "success") <=> (SignedLE(SubSeq(codec.wire, 7, 10)) = 1)
        /\ codec.result.result \in {"success", "failure"}
        /\ codec.result.reason = SignedLE(SubSeq(codec.wire, 11, 14))
        /\ (codec.wire = B_RL \o << 10, 0, 0, 0, 1, 0, 0, 0, 0, 0, 0, 0 >>
              => codec.result = [kind |-> "LaneChangeResponse", agent_id |-> 10,
                                 result |-> "success", reason |-> 0])

C16_Witness ==
    /\ Decoded
    /\ codec.wire = B_RL \o << 255, 255, 255, 255, 2, 0, 0, 0, 3, 0, 0, 0 >>
    /\ codec.result = [kind |-> "LaneChangeResponse", agent_id |-> -1,
                       result |-> "failure", reason |-> 3]

\* what parse_resim_data returns: the decoded variants, the unrecognized
\* result and the results that report a failure to parse
ResultKinds ==
    {"SyncSignal", "VehicleState", "TestString", "AgentPosition", "AgentState",
     "TrafficSignal", "CounterTest", "SimStatus", "SimStatusBlob", "LaneChangeCommand",
     "LaneChangeResponse", "StartSimulation", "PauseSimulation", "ResumeSimulation",
     "ResimCommand", "Unrecognized"} \cup ErrorKinds

\* C17: decoding is total: for every byte string, the empty frame, 1-byte
\* frames and frames with non-ASCII or invalid UTF-8 bytes included,
\* parse_resim_data returns a result and no exception leaves it.
C17_DecodeTotal ==
    Decoded =>
        /\ codec.result.kind \in ResultKinds
        /\ Len(codec.wire) < 2 => codec.result.kind = "PacketTooShort"

C17_Witness ==
    /\ Decoded
    /\ codec.wire = << >>
    /\ codec.result = [kind |-> "PacketTooShort", hex |-> << >>]

(***************************************************************************)
(* More properties of one listener (checked under SpecSingle)              *)
(***************************************************************************)

\* the text "Unrecognized"
TextUnrecognized == << 85, 110, 114, 101, 99, 111, 103, 110, 105, 122, 101, 100 >>

\* the prefix entry parse_resim_data resolves for a frame, as text, or
\* "Unrecognized" when no registered prefix resolves
ResolvedPrefix(f) ==
    LET kind == parse_resim_data(f).kind
    IN CASE kind \in {"SyncSignal", "VehicleState"} -> B_RSd
         [] kind = "TestString" -> B_TEST_
         [] kind = "AgentPosition" -> B_AP
         [] kind = "AgentState" -> B_AS
         [] kind = "TrafficSignal" -> B_TS
         [] kind \in {"CounterTest", "CounterTestUnparsed"} -> B_TSPY
         [] kind \in {"SimStatus", "SimStatusUnparsed", "SimStatusBlob"} -> B_SS
         [] kind \in {"LaneChangeCommand", "CLParseError"} -> B_CL
         [] kind \in {"LaneChangeResponse", "RLParseError"} -> B_RL
         [] kind = "StartSimulation" -> B_CS
         [] kind = "PauseSimulation" -> B_CP
         [] kind = "ResumeSimulation" -> B_CR
         [] kind = "ResimCommand" -> parse_resim_data(f).prefix
         [] OTHER -> TextUnrecognized

\* the datagrams with a per-key count whose frame resolves to prefix k
ResolvedUnder(k) == {x \in Keyed : ResolvedPrefix(FrameOf(x)) = k}

\* C18: the per-key counter updated for a frame is keyed by the prefix the
\* decoder resolved for the frame, or by "Unrecognized" when none resolves:
\* once the listener has finished its datagrams, each key's count is the
\* number of counted frames that resolve to that prefix entry.
C18_CountedUnderResolvedPrefix ==
    Quiescent =>
        \A k \in KeysSeen \cup {ResolvedPrefix(FrameOf(x)) : x \in Keyed} :
            DictGet(stats.command_counts, k) = Cardinality(ResolvedUnder(k))

(***************************************************************************)
(* Properties of the status reports (checked under SpecStatus)             *)
(***************************************************************************)

\* C20: the periodic status task never modifies the statistics: a step of
\* the status thread leaves the total count, the last-packet time, the
\* per-key counts and the recent-entries list as they are (udp_receiver's
\* stats; updre's stats, packet_count and the datagram at hand).
C20_StatusLeavesStatistics ==
    [][ /\ StatusStep => (stats' = stats /\ list_id' = list_id /\ clock' = clock)
        /\ UpdreStatus => (/\ updre'.stats = updre.stats
                           /\ updre'.packet_count = updre.packet_count
                           /\ updre'.arrived = updre.arrived
                           /\ updre'.running = updre.running) ]_vars

\* a report of udp_receiver's status thread has read a total that is not 0
\* and has come through counts that are not empty
C20_Witness ==
    /\ status.pc = "while"
    /\ status.last_total > 0
    /\ stats.total_packets = status.last_total
    /\ DOMAIN stats.command_counts # {}

(***************************************************************************)
(* Bind failures                                                           *)
(***************************************************************************)

\* C21: a listener whose bind failed stays ended: it never binds again, never
\* enters the receive loop and never receives a datagram; the step in which
\* the bind fails changes nothing of the other ports' listeners, of the
\* statistics or of the flag running.
C21_BindFailureStopsListener ==
    [][\A p \in AllPorts :
          /\ listener[p].pc = "bind_failed" =>
                /\ listener'[p] = listener[p]
                /\ delivered[p] = << >>
                /\ delivered'[p] = << >>
          /\ (listener[p].pc = "bind" /\ listener'[p].pc = "bind_failed") =>
                /\ \A q \in AllPorts \ {p} : listener'[q] = listener[q]
                /\ stats' = stats
                /\ running' = running
                /\ inflight' = inflight]_vars

\* C21: the bind of port 20000 failed and the listener of port 20001 has
\* received and processed a datagram since
C21_Witness ==
    /\ listener[DEFAULT_PORTS[1]].pc = "bind_failed"
    /\ Len(delivered[DEFAULT_PORTS[2]]) >= 1
    /\ listener[DEFAULT_PORTS[2]].pc = "while"
    /\ stats.total_packets >= 1
    /\ Len(stats.last_commands) >= 1

(***************************************************************************)
(* Order of processing on one port                                         *)
(***************************************************************************)

\* the entries of the recent commands that port p's listener appended, in
\* the order they have in the list
EntriesOfPort(p) == SelectSeq(stats.last_commands, LAMBDA x : x.port = p)

\* the listener of port p holds nothing of a datagram
NothingPending(p) ==
    /\ listener[p].data = << >>
    /\ listener[p].entry = NoEntry
    /\ listener[p].tmp = 0
    /\ listener[p].slice = << >>

\* C22: a port's listener receives a datagram only when it holds nothing of
\* the previous one (it was counted, decoded, appended and logged), the
\* datagram is the newest of those the port received, and any two recent
\* entries of one port stand in the order in which their datagrams arrived
\* (their times of arrival increase along the list).
C22_PortProcessedInArrivalOrder ==
    [][\A p \in AllPorts :
          /\ delivered'[p] # delivered[p] =>
                /\ listener[p].pc = "recvfrom"
                /\ NothingPending(p)
                /\ delivered'[p] = Append(delivered[p], listener'[p].data)
          /\ \A es \in {EntriesOfPort(p)'} :
                \A i \in 1..(Len(es) - 1) : es[i].time < es[i + 1].time]_vars

\* C22: a process started with an empty list has two entries of port 20001
\* in its recent commands, and that port's listener is back at its loop
C22_Witness ==
    /\ Len(stats.last_commands) = 2
    /\ Len(EntriesOfPort(DEFAULT_PORTS[2])) = 2
    /\ Len(delivered[DEFAULT_PORTS[2]]) = 2
    /\ listener[DEFAULT_PORTS[2]].pc = "while"

(***************************************************************************)
(* More properties of the decoder                                          *)
(***************************************************************************)

\* C25: every frame that starts with 'SS' and has at least 6 bytes decodes
\* to the simulation status whose value is the little-endian int32 of bytes
\* 2..5: 0 is stopped, 1 running, 2 paused, and any other value is reported
\* as unknown with that integer unchanged.
C25_SimulationStatusDecoded ==
    (Decoded /\ StartsWith(codec.wire, B_SS) /\ Len(codec.wire) >= 6) =>
        /\ codec.result.kind = "SimStatus"
        /\ DOMAIN codec.result = {"kind", "status"}
        /\ codec.result.status.value = SignedLE(SubSeq(codec.wire, 3, 6))
        /\ codec.result.status.name =
              (CASE SignedLE(SubSeq(codec.wire, 3, 6)) = 0 -> "stopped"
                 [] SignedLE(SubSeq(codec.wire, 3, 6)) = 1 -> "running"
                 [] SignedLE(SubSeq(codec.wire, 3, 6)) = 2 -> "paused"
                 [] OTHER -> "unknown")

\* C25: the frame 'SS' + FF FF FF FF is decoded: an unknown status -1
C25_Witness ==
    /\ Decoded
    /\ codec.wire = B_SS \o << 255, 255, 255, 255 >>
    /\ codec.result = [kind |-> "SimStatus", status |-> [name |-> "unknown", value |-> -1]]

\* C26: the frame of exactly the 3 bytes 'RSd' decodes to the sync signal;
\* every longer frame that starts with 'RSd' decodes to the state blob with
\* the prefix 'RSd' and the frame's total length, whatever follows.
C26_SyncSignalAndStateBlob ==
    (Decoded /\ StartsWith(codec.wire, B_RSd)) =>
        IF Len(codec.wire) = 3
        THEN codec.result = [kind |-> "SyncSignal", prefix |-> B_RSd]
        ELSE codec.result = [kind |-> "VehicleState", prefix |-> B_RSd,
                             size |-> Len(codec.wire)]

\* C26: a frame 'RSd' followed by the bytes FF 00 C8 is decoded
C26_Witness ==
    /\ Decoded
    /\ codec.wire = B_RSd \o << 255, 0, 200 >>
    /\ codec.result = [kind |-> "VehicleState", prefix |-> B_RSd, size |-> 6]

\* what Python's bytes.decode('utf-8', errors='replace') gives for the bytes
\* that follow 'TEST_' in the frames decoded: the bytes, then the code points
Utf8Expected ==
    { << << >>, << >> >>,
      << << 104, 105 >>, << 104, 105 >> >>,
      << << 255 >>, << 65533 >> >>,
      << << 195, 169 >>, << 233 >> >>,
      << << 226, 130, 172 >>, << 8364 >> >>,
      << << 240, 159, 152, 128 >>, << 128512 >> >>,
      << << 226, 130 >>, << 65533 >> >>,
      << << 226, 65 >>, << 65533, 65 >> >>,
      << << 192, 128 >>, << 65533, 65533 >> >>,
      << << 237, 160, 128 >>, << 65533, 65533, 65533 >> >>,
      << << 104, 128, 105 >>, << 104, 65533, 105 >> >>,
      << << 244, 144, 128, 128 >>, << 65533, 65533, 65533, 65533 >> >> }

\* C27: every frame that starts with 'TEST_' decodes to the test string whose
\* text is the whole frame decoded as UTF-8, U+FFFD standing for what does
\* not decode, and never to a failure; 54 45 53 54 5F 68 69 decodes to the
\* text "TEST_hi".
C27_TestEchoDecoded ==
    (Decoded /\ StartsWith(codec.wire, B_TEST_)) =>
        /\ codec.result.kind = "TestString"
        /\ DOMAIN codec.result = {"kind", "message"}
        /\ \E x \in Utf8Expected :
              /\ codec.wire = B_TEST_ \o x[1]
              /\ codec.result.message = B_TEST_ \o x[2]
        /\ (codec.wire = << 84, 69, 83, 84, 95, 104, 105 >>
              => codec.result.message = << 84, 69, 83, 84, 95, 104, 105 >>)

\* C27: 'TEST_' followed by the two bytes of U+00E9 is decoded to 6 characters
C27_Witness ==
    /\ Decoded
    /\ codec.wire = B_TEST_ \o << 195, 169 >>
    /\ codec.result = [kind |-> "TestString", message |-> B_TEST_ \o << 233 >>]

(***************************************************************************)
(* Matching of the prefixes                                                *)
(***************************************************************************)

ChainOrder ==
    << B_RSd, B_TEST_, B_AP, B_AS, B_TS, B_TSPY, B_SS, B_CL, B_RL, B_CS, B_CP, B_CR,
       B_RS, B_RP, B_RQ, B_CC >>

\* entry i takes frame f, by a comparison of raw bytes: the frame's leading
\* bytes are the entry's prefix and the frame has the entry's minimum length
TakenByBytes(f, i) ==
    /\ StartsWith(f, ChainOrder[i])
    /\ ChainOrder[i] \in {B_CL, B_RL} => Len(f) >= 14

\* the entry a comparison of raw bytes resolves for f: the first in the
\* decoder's order that takes it
ResolvedByBytes(f) ==
    IF Len(f) >= 2 /\ \E i \in DOMAIN ChainOrder : TakenByBytes(f, i)
    THEN ChainOrder[CHOOSE i \in DOMAIN ChainOrder :
                        /\ TakenByBytes(f, i)
                        /\ \A j \in 1..(i - 1) : ~TakenByBytes(f, j)]
    ELSE TextUnrecognized

C24_CountersNeverDecrease ==
    [][/\ stats'.total_packets >= stats.total_packets
       /\ \A k \in DOMAIN stats.command_counts :
             /\ k \in DOMAIN stats'.command_counts
             /\ stats'.command_counts[k] >= stats.command_counts[k]]_vars

(***************************************************************************)
(* The sending tools: lane_change_test.py, quick_fix.py and                *)
(* resim_direct_command.py.  A run of a tool sends its commands one after  *)
(* the other, each by one call of the tool's send operation.               *)
(***************************************************************************)

\* lane_change_test.py line 85: b'TEST_MESSAGE_FROM_PYTHON'
create_test_message ==
    B_TEST_ \o << 77, 69, 83, 83, 65, 71, 69, 95, 70, 82, 79, 77, 95, 80, 89, 84, 72, 79, 78 >>

\* how many times lane_change_test.py --count sends the lane change command
MaxCount == 2

\* lane_change_test.main, lines 198-233: --start sends 'CS' first; the test
\* message; then the command --count times, by send_command with --no-listen
\* and by run_lane_change_test without; --distance gives the assigned command
LaneChangeTestRuns ==
    { [tool |-> "lane_change_test",
       cmds |-> (IF start THEN << create_start_simulation_command >> ELSE << >>)
                  \o << create_test_message >>
                  \o [k \in 1..count |->
                        IF distance = 0
                        THEN create_lane_change_command(10, 0, 1)
                        ELSE create_assigned_lane_change_command(10, 0, 1, distance)],
       listen_from |-> IF no_listen THEN 0 ELSE (IF start THEN 3 ELSE 2),
       listen_last |-> FALSE] :
        start \in BOOLEAN, count \in 1..MaxCount, no_listen \in BOOLEAN, distance \in {0, 100} }

\* quick_fix.test_lane_change, line 80: b'CL' + struct.pack('<iii', ...)
test_lane_change(agent_id, direction, force) ==
    B_CL \o struct_pack_i(agent_id) \o struct_pack_i(direction) \o struct_pack_i(force)

\* quick_fix.main, lines 129-147: --sim sends 'CS', --lane the two lane
\* changes, --listen listens at the end
QuickFixRuns ==
    { [tool |-> "quick_fix",
       cmds |-> (IF sim THEN << B_CS >> ELSE << >>)
                  \o (IF lane THEN << test_lane_change(10, 0, 1), test_lane_change(10, 1, 0) >>
                      ELSE << >>),
       listen_from |-> 0,
       listen_last |-> listen] :
        sim \in BOOLEAN, lane \in BOOLEAN, listen \in BOOLEAN }

\* resim_direct_command.main, lines 66-76: the prefixes CL, CAL, ACL, RCL, CCL,
\* FCL, CCFL, C and CS
DirectPrefixes ==
    << B_CL, B_CAL, << 65, 67, 76 >>, << 82, 67, 76 >>, << 67, 67, 76 >>, << 70, 67, 76 >>,
       << 67, 67, 70, 76 >>, << 67 >>, B_CS >>

\* resim_direct_command.send_command(prefix), lines 49-61: the bytes given to
\* send_raw_bytes
direct_send_command(prefix) ==
    prefix \o struct_pack_i(10) \o struct_pack_i(0) \o struct_pack_i(1)

\* resim_direct_command.main, lines 79-119: with an index, that prefix alone
\* ('CS' without arguments); without, 'CS' and then every other prefix
ResimDirectRuns ==
    { [tool |-> "resim_direct_command",
       cmds |-> << IF DirectPrefixes[idx] = B_CS THEN B_CS
                   ELSE direct_send_command(DirectPrefixes[idx]) >>,
       listen_from |-> 0,
       listen_last |-> FALSE] : idx \in DOMAIN DirectPrefixes }
    \cup
    { [tool |-> "resim_direct_command",
       cmds |-> << B_CS >> \o [k \in 1..(Len(DirectPrefixes) - 1) |->
                                  direct_send_command(DirectPrefixes[k])],
       listen_from |-> 0,
       listen_last |-> FALSE] }

\* the tool is started: nothing is sent yet
SenderAtStart(run) ==
    [tool |-> run.tool,
     pc |-> IF run.cmds # << >> THEN "call" ELSE IF run.listen_last THEN "listen" ELSE "done",
     cmds |-> run.cmds,
     listen_from |-> run.listen_from,
     listen_last |-> run.listen_last,
     i |-> IF run.cmds # << >> THEN 1 ELSE 0,
     sendto_calls |-> [k \in DOMAIN run.cmds |-> 0],
     transmitted |-> [k \in DOMAIN run.cmds |-> 0],
     returns |-> [k \in DOMAIN run.cmds |-> "none"],
     heard |-> "none",
     listened |-> [k \in DOMAIN run.cmds |-> 0],
     lfr |-> LfrOff]

SenderUnchanged ==
    UNCHANGED << simulator, fwd, env, changer, codec, enc, updre, receiverVars >>

\* what the caller does once the send operation is over for command i: the
\* next command, the listening at the end of quick_fix, or the end
SenderGoesOn(snd) ==
    IF snd.i < Len(snd.cmds) THEN [snd EXCEPT !.i = snd.i + 1, !.pc = "call"]
    ELSE IF snd.listen_last /\ snd.pc # "listen" THEN [snd EXCEPT !.pc = "listen"]
    ELSE [snd EXCEPT !.pc = "done"]

\* socket.socket(AF_INET, SOCK_DGRAM) returns (lane_change_test.py:31,
\* quick_fix.py:52, resim_direct_command.py:37)
SendSocket ==
    /\ sender.pc = "call"
    /\ sender' = [sender EXCEPT !.pc = "sendto"]
    /\ SenderUnchanged

\* socket.socket raises OSError.  In send_command and send_raw_bytes the call
\* is inside the try: the error is logged and False returned.  In
\* quick_fix.send_udp_packet it is before the try: the exception leaves the
\* function and ends the run.
SendSocketRaises ==
    /\ sender.pc = "call"
    /\ sender' = IF sender.tool = "quick_fix"
                 THEN [sender EXCEPT !.pc = "raised", !.returns[sender.i] = "raised"]
                 ELSE [sender EXCEPT !.pc = "returned", !.returns[sender.i] = "False"]
    /\ SenderUnchanged

\* a send operation that would call sendto again after it raised
SendToRaises_retries ==
    /\ sender.pc = "sendto"
    /\ sender' = [sender EXCEPT !.sendto_calls[sender.i] = @ + 1]
    /\ SenderUnchanged

\* sock.sendto(data, (ip, port)) returns: the datagram is on its way
SendTo ==
    /\ sender.pc = "sendto"
    /\ sender' = [sender EXCEPT !.pc = "sent",
                                !.sendto_calls[sender.i] = @ + 1,
                                !.transmitted[sender.i] = @ + 1]
    /\ SenderUnchanged

\* sock.sendto raises: the handler logs the error and returns False
\* (quick_fix closes the socket in its finally)
SendToRaises ==
    /\ sender.pc = "sendto"
    /\ sender' = [sender EXCEPT !.pc = "returned",
                                !.sendto_calls[sender.i] = @ + 1,
                                !.returns[sender.i] = "False"]
    /\ SenderUnchanged

\* after sendto: sock.close(), the hex of the data is logged, return True
\* (quick_fix sleeps 1 s before, and closes the socket in its finally)
SendReturn ==
    /\ sender.pc = "sent"
    /\ sender' = [sender EXCEPT !.pc = "returned", !.returns[sender.i] = "True"]
    /\ SenderUnchanged

SendResult_listens ==
    /\ sender.pc = "returned"
    /\ sender' = IF sender.listen_from > 0 /\ sender.i >= sender.listen_from
                 THEN [sender EXCEPT !.pc = "listen"]
                 ELSE SenderGoesOn(sender)
    /\ SenderUnchanged

\* the caller has the result.  run_lane_change_test (lane_change_test.py:
\* 173-175) listens for a response when send_command returned True; every
\* other caller ignores the result and goes on.
SendResult ==
    /\ sender.pc = "returned"
    /\ sender' = IF /\ sender.listen_from > 0
                    /\ sender.i >= sender.listen_from
                    /\ sender.returns[sender.i] = "True"
                 THEN [sender EXCEPT !.pc = "listen"]
                 ELSE SenderGoesOn(sender)
    /\ SenderUnchanged

\* what listening can end with
ListenOutcomes == {"response", "no_response", "port_in_use", "error"}

\* listen_for_responses (quick_fix.py:88-110): responses are logged until the
\* time is over, or none comes, or the port cannot be bound, or another error
\* is logged; then the function returns
Listen ==
    /\ sender.pc = "listen"
    /\ sender.tool = "quick_fix"
    /\ \E h \in ListenOutcomes : sender' = SenderGoesOn([sender EXCEPT !.heard = h])
    /\ SenderUnchanged

\* lane_change_test.py line 175: listen_for_response(timeout=3, ...), in seconds
LISTEN_TIMEOUT == 3

\* how many datagrams arrive at most while listen_for_response listens
MaxResponses == 2

\* listen_for_response is at position pc
LfrAt(pc) == sender.pc = "listen" /\ sender.tool = "lane_change_test" /\ sender.lfr.pc = pc

\* listen_for_response returns with the outcome h to run_lane_change_test,
\* which returns to main
LfrReturns(snd, h, sock) ==
    sender' = SenderGoesOn([snd EXCEPT !.heard = h, !.lfr.pc = "returned", !.lfr.sock = sock])

\* lane_change_test.py lines 96-97: run_lane_change_test calls
\* listen_for_response; socket.socket() returns, settimeout(0.1)
LfrSocket ==
    /\ sender.pc = "listen" /\ sender.tool = "lane_change_test"
    /\ sender.lfr.pc \in {"off", "returned"}
    /\ sender' = [sender EXCEPT !.listened[sender.i] = @ + 1,
                                !.lfr = [LfrOff EXCEPT !.pc = "bind", !.sock = "open"]]
    /\ SenderUnchanged

\* lines 96, 143-149: socket.socket() raises; the error is logged, and in the
\* finally clause sock is not bound to any socket: the NameError of
\* sock.close() is swallowed by the bare except
LfrSocketRaises ==
    /\ sender.pc = "listen" /\ sender.tool = "lane_change_test"
    /\ sender.lfr.pc \in {"off", "returned"}
    /\ LfrReturns([sender EXCEPT !.listened[sender.i] = @ + 1, !.lfr = LfrOff],
                  "error", "none")
    /\ SenderUnchanged

\* lines 99-102, 110, 113: bind returns; settimeout(timeout); start_time is
\* read
LfrBind ==
    /\ LfrAt("bind")
    /\ \E n \in 0..MaxResponses :
          sender' = [sender EXCEPT !.lfr.pc = "while", !.lfr.sock = "bound",
                                   !.lfr.elapsed = 0, !.lfr.inflight = n]
    /\ SenderUnchanged

\* lines 103-106 and 145-149: bind raises OSError with errno 10048; a warning
\* is logged and the function returns through the finally clause, which
\* closes the socket
LfrBindInUse ==
    /\ LfrAt("bind")
    /\ LfrReturns(sender, "port_in_use", "closed")
    /\ SenderUnchanged

\* lines 107-108 and 143-149: bind raises OSError with another errno; it is
\* raised again, logged by the outer handler, and the finally clause closes
\* the socket
LfrBindRaises ==
    /\ LfrAt("bind")
    /\ LfrReturns(sender, "error", "closed")
    /\ SenderUnchanged

\* line 114: while time.time() - start_time < timeout
LfrWhile ==
    /\ LfrAt("while")
    /\ sender' = [sender EXCEPT !.lfr.pc = IF sender.lfr.elapsed < LISTEN_TIMEOUT
                                           THEN "recvfrom" ELSE "finally"]
    /\ SenderUnchanged

\* lines 116-137: recvfrom returns a datagram before its timeout; it is
\* logged and decoded (an error of the decoding is caught at line 135).  The
\* clock may have gone on by then.
LfrRecv ==
    /\ LfrAt("recvfrom")
    /\ sender.lfr.inflight > 0
    /\ \E d \in {0, 1} :
          sender' = [sender EXCEPT !.lfr.pc = "while", !.lfr.inflight = @ - 1,
                                   !.lfr.got = TRUE,
                                   !.lfr.elapsed = Min(@ + d, LISTEN_TIMEOUT)]
    /\ SenderUnchanged

\* lines 138-140: recvfrom raises socket.timeout after timeout seconds;
\* continue
LfrRecvTimeout ==
    /\ LfrAt("recvfrom")
    /\ sender' = [sender EXCEPT !.lfr.pc = "while", !.lfr.elapsed = LISTEN_TIMEOUT]
    /\ SenderUnchanged

\* lines 143-144: recvfrom raises another error; the outer handler logs it
LfrRecvRaises ==
    /\ LfrAt("recvfrom")
    /\ sender' = [sender EXCEPT !.lfr.pc = "finally", !.lfr.raised = TRUE]
    /\ SenderUnchanged

\* lines 145-149: the finally clause closes the socket and the function
\* returns
LfrClose ==
    /\ LfrAt("finally")
    /\ LfrReturns(sender,
                  IF sender.lfr.raised THEN "error"
                  ELSE IF sender.lfr.got THEN "response" ELSE "no_response",
                  "closed")
    /\ SenderUnchanged

\* the steps of listen_for_response
LfrStep ==
    \/ LfrSocket
    \/ LfrSocketRaises
    \/ LfrBind
    \/ LfrBindInUse
    \/ LfrBindRaises
    \/ LfrWhile
    \/ LfrRecv
    \/ LfrRecvTimeout
    \/ LfrRecvRaises
    \/ LfrClose

InitSender ==
    /\ sender \in {SenderAtStart(run) : run \in LaneChangeTestRuns \cup QuickFixRuns \cup ResimDirectRuns}
    /\ changer = ChangerOff
    /\ simulator = SimOff
    /\ fwd = FwdOff
    /\ env = EnvOff
    /\ codec = CodecOff
    /\ enc = EncOff
    /\ updre = UpdreOff
    /\ ReceiverOff

NextSender ==
    \/ SendSocket
    \/ SendSocketRaises
    \/ SendTo
    \/ SendToRaises
    \/ SendReturn
    \/ SendResult
    \/ Listen
    \/ LfrStep

SpecSender == InitSender /\ [][NextSender]_vars

\* listen_for_response runs in the main thread of lane_change_test.py, which
\* is scheduled: a step it can take is taken, and a recvfrom that gets no
\* datagram returns with socket.timeout
FairSpecSender == SpecSender /\ WF_vars(LfrStep)

\* the send operation for command k is over
SendOver(k) ==
    \/ k < sender.i
    \/ k = sender.i /\ sender.pc \in {"returned", "listen", "done", "raised"}

\* C23: sending is fire-and-forget.  For each command of a run sendto is
\* called at most once, and at most that one datagram is transmitted; once the
\* send operation is over it has returned True exactly when its sendto call
\* returned without raising; and the run never goes back to a command: after
\* a failed send or after listening without a response it goes on to the next
\* command or ends.
C23_FireAndForget ==
    [][/\ \A k \in DOMAIN sender.cmds :
            /\ sender'.sendto_calls[k] <= 1
            /\ sender'.transmitted[k] <= sender'.sendto_calls[k]
            /\ sender'.transmitted[k] >= sender.transmitted[k]
            /\ sender'.returns[k] = "True" => sender'.transmitted[k] = 1
            /\ SendOver(k)' => (sender'.returns[k] = "True" <=> sender'.transmitted[k] = 1)
            /\ SendOver(k) => /\ SendOver(k)'
                              /\ sender'.sendto_calls[k] = sender.sendto_calls[k]
                              /\ sender'.returns[k] = sender.returns[k]
       /\ sender'.cmds = sender.cmds
       /\ sender'.i >= sender.i]_vars

\* C23: lane_change_test.py --count 2 has ended: the first lane change
\* command's sendto raised, the second was sent and no response came; each
\* was given to sendto once
C23_Witness ==
    /\ sender.tool = "lane_change_test"
    /\ sender.pc = "done"
    /\ Len(sender.cmds) = 3
    /\ sender.cmds[2] = sender.cmds[3]
    /\ sender.sendto_calls = << 1, 1, 1 >>
    /\ sender.returns = << "True", "False", "True" >>
    /\ sender.transmitted = << 1, 0, 1 >>
    /\ sender.heard = "no_response"

\* listen_for_response holds a socket that is not closed
LfrSocketOpen == sender.lfr.sock \in {"open", "bound"}

\* listen_for_response has been called and has not returned
LfrRunning == sender.lfr.pc \in {"bind", "while", "recvfrom", "finally"}

\* listen_for_response was called for a command only after send_command
\* returned True for it, with the command sent
ListensOnlyAfterSent ==
    /\ \A k \in DOMAIN sender.listened :
           sender.listened[k] > 0 =>
               sender.returns[k] = "True" /\ sender.transmitted[k] = 1
    /\ (LfrSocketOpen \/ LfrRunning) =>
           /\ sender.tool = "lane_change_test"
           /\ sender.pc = "listen"
           /\ sender.returns[sender.i] = "True"
    /\ sender.lfr.pc = "returned" => ~LfrSocketOpen

\* C33: run_lane_change_test binds the response listener only after
\* send_command has returned True, never before the command is sent and not
\* at all when sending failed; listen_for_response, once called, always
\* returns, and by then its socket is closed, whether a response arrived, the
\* port was in use or an error occurred.
C33_ListenAfterSendAndClose ==
    /\ []ListensOnlyAfterSent
    /\ (LfrRunning ~> (sender.lfr.pc = "returned" /\ ~LfrSocketOpen))

\* C33 witness: lane_change_test.py --count 2 has ended; the first lane
\* change command's sendto raised and nothing listened for it, the second was
\* sent, listen_for_response found the port in use and returned with its
\* socket closed
C33_Witness ==
    /\ sender.tool = "lane_change_test"
    /\ sender.pc = "done"
    /\ sender.returns = << "True", "False", "True" >>
    /\ sender.listened = << 0, 0, 1 >>
    /\ sender.heard = "port_in_use"
    /\ sender.lfr.pc = "returned"
    /\ sender.lfr.sock = "closed"

(***************************************************************************)
(* resim_lane_change.py: the cyclic lane change of a ResimLaneChanger.  A  *)
(* caller thread calls start_cyclic_lane_change and                        *)
(* stop_cyclic_lane_change in any order; each successful start creates a   *)
(* daemon thread that runs _cyclic_lane_change_worker.                     *)
(***************************************************************************)

\* how many calls of start_cyclic_lane_change and stop_cyclic_lane_change the
\* caller makes
MaxCalls == 4

\* the values of interval the cycle is started with, in seconds: main's
\* default, and a negative one from the command line
Intervals == {5, -1}

\* LaneChangeDirection.LEFT, LaneChangeDirection.RIGHT, LaneChangeMode.FORCE_CHANGE
LEFT == 0

RIGHT == 1

FORCE_CHANGE == 1

\* the values of agent_id the cycle is started with.  The id is only copied
\* into the commands; one that differs from main's default 10 in every byte
\* is followed
CyclicAgentIds == {-256}

\* line 150: a worker thread at its start, current_direction = LEFT; with it
\* the number of commands it has sent while cycle_active was False (2 for 2
\* or more), the command it gave to request_lane_change last and the command
\* it sent last (none yet)
NewWorker ==
    [pc |-> "while", current_direction |-> LEFT, further |-> 0, requested |-> << >>,
     sent |-> << >>]

CyclicUnchanged ==
    UNCHANGED << simulator, fwd, env, sender, codec, enc, updre, receiverVars >>

\* a call of the method op returned ret
Returned(op, ret) == [op |-> op, ret |-> ret]

\* a start that would not test the flag
StartCall_restarts ==
    /\ changer.pc = "idle"
    /\ changer.calls < MaxCalls
    /\ changer' = [changer EXCEPT !.calls = @ + 1, !.op = "start", !.pc = "start_set"]
    /\ CyclicUnchanged

\* lines 118-120: start_cyclic_lane_change is called; if self.cycle_active it
\* warns and returns False
StartCall ==
    /\ changer.pc = "idle"
    /\ changer.calls < MaxCalls
    /\ changer' = [changer EXCEPT
            !.calls = @ + 1,
            !.op = "start",
            !.pc = IF changer.cycle_active THEN "idle" ELSE "start_set",
            !.returns = IF changer.cycle_active THEN Append(@, Returned("start", FALSE))
                        ELSE @]
    /\ CyclicUnchanged

\* lines 122-131: cycle_active = True; the thread is created, stored in
\* cycle_thread and started; return True
StartSet ==
    /\ changer.pc = "start_set"
    /\ changer' = [changer EXCEPT
            !.pc = "idle",
            !.returns = Append(@, Returned("start", TRUE)),
            !.cycle_active = TRUE,
            !.cycle_thread = Len(changer.workers) + 1,
            !.workers = Append([w \in DOMAIN changer.workers |->
                                   [changer.workers[w] EXCEPT !.further = 0]],
                               NewWorker)]
    /\ CyclicUnchanged

\* lines 136-141: stop_cyclic_lane_change is called; if not self.cycle_active
\* it warns and returns False; else cycle_active = False and, if
\* self.cycle_thread, the join is entered
StopCall ==
    /\ changer.pc = "idle"
    /\ changer.calls < MaxCalls
    /\ changer' = IF ~changer.cycle_active
                  THEN [changer EXCEPT !.calls = @ + 1, !.op = "stop",
                                       !.returns = Append(@, Returned("stop", FALSE))]
                  ELSE [changer EXCEPT !.calls = @ + 1, !.op = "stop",
                                       !.cycle_active = FALSE,
                                       !.pc = IF changer.cycle_thread # 0
                                              THEN "stop_join" ELSE "idle",
                                       !.returns = IF changer.cycle_thread # 0 THEN @
                                                   ELSE Append(@, Returned("stop", TRUE))]
    /\ CyclicUnchanged

\* lines 142-146: join(timeout=1.0) returns because the thread has ended;
\* cycle_thread = None; return True
StopJoined ==
    /\ changer.pc = "stop_join"
    /\ changer.workers[changer.cycle_thread].pc = "done"
    /\ changer' = [changer EXCEPT !.pc = "idle", !.cycle_thread = 0,
                                  !.returns = Append(@, Returned("stop", TRUE))]
    /\ CyclicUnchanged

\* lines 142-146: join(timeout=1.0) returns after 1 s while the thread is
\* still alive (it sleeps for interval seconds, 5 by default); cycle_thread =
\* None; return True
StopJoinTimesOut ==
    /\ changer.pc = "stop_join"
    /\ changer.workers[changer.cycle_thread].pc # "done"
    /\ changer' = [changer EXCEPT !.pc = "idle", !.cycle_thread = 0,
                                  !.returns = Append(@, Returned("stop", TRUE))]
    /\ CyclicUnchanged

WorkerAt(w, pc) == w \in DOMAIN changer.workers /\ changer.workers[w].pc = pc

\* a worker that would not test the flag
WorkerWhile_ignores(w) ==
    /\ WorkerAt(w, "while")
    /\ changer' = [changer EXCEPT !.workers[w].pc = "send"]
    /\ CyclicUnchanged

\* line 153: while self.cycle_active; the thread ends when it is False
WorkerWhile(w) ==
    /\ WorkerAt(w, "while")
    /\ changer' = [changer EXCEPT
            !.workers[w].pc = IF changer.cycle_active THEN "send" ELSE "done"]
    /\ CyclicUnchanged

\* a worker that would send every command to the left
WorkerCommand_left(w) == request_lane_change(changer.agent_id, LEFT, FORCE_CHANGE)

\* the command worker w gives to request_lane_change (lines 156-160)
WorkerCommand(w) ==
    request_lane_change(changer.agent_id, changer.workers[w].current_direction, FORCE_CHANGE)

\* lines 155-160: request_lane_change(agent_id, current_direction,
\* FORCE_CHANGE) sends the command (lines 53-70); the worker ignores the
\* result
WorkerSend(w) ==
    /\ WorkerAt(w, "send")
    /\ changer' = [changer EXCEPT
            !.workers[w].pc = "sleep",
            !.workers[w].further = IF changer.cycle_active THEN @ ELSE Min(@ + 1, 2),
            !.workers[w].requested = WorkerCommand(w),
            !.workers[w].sent = WorkerCommand(w),
            !.last = WorkerCommand(w)]
    /\ CyclicUnchanged

\* lines 155-160 and 72-74: socket.socket() or sendto raises inside
\* request_lane_change, which logs the error and returns False; nothing is
\* sent, and the worker ignores the result
WorkerSendFails(w) ==
    /\ WorkerAt(w, "send")
    /\ changer' = [changer EXCEPT !.workers[w].pc = "sleep",
                                  !.workers[w].requested = WorkerCommand(w)]
    /\ CyclicUnchanged

\* lines 163-170: time.sleep(interval) returns; with alternate_direction the
\* direction is switched
WorkerSleep(w) ==
    /\ WorkerAt(w, "sleep")
    /\ changer.interval >= 0
    /\ changer' = [changer EXCEPT
            !.workers[w].pc = "while",
            !.workers[w].current_direction =
                IF changer.alternate_direction
                THEN (IF @ = LEFT THEN RIGHT ELSE LEFT)
                ELSE @]
    /\ CyclicUnchanged

\* lines 163, 172-174: time.sleep raises ValueError for a negative interval;
\* the handler logs it and sets cycle_active = False; the thread ends
WorkerSleepRaises(w) ==
    /\ WorkerAt(w, "sleep")
    /\ changer.interval < 0
    /\ changer' = [changer EXCEPT !.workers[w].pc = "done", !.cycle_active = FALSE]
    /\ CyclicUnchanged

\* one step of worker thread w
WorkerStep(w) ==
    \/ WorkerWhile(w)
    \/ WorkerSend(w)
    \/ WorkerSendFails(w)
    \/ WorkerSleep(w)
    \/ WorkerSleepRaises(w)

\* one step of the caller
CallerStep ==
    \/ StartCall
    \/ StartSet
    \/ StopCall
    \/ StopJoined
    \/ StopJoinTimesOut

\* the ResimLaneChanger is constructed (lines 17-33)
InitCyclic ==
    /\ changer \in {[ChangerOff EXCEPT !.pc = "idle", !.interval = iv,
                                       !.alternate_direction = alt, !.agent_id = a] :
                        iv \in Intervals, alt \in BOOLEAN, a \in CyclicAgentIds}
    /\ sender = SenderOff
    /\ simulator = SimOff
    /\ fwd = FwdOff
    /\ env = EnvOff
    /\ codec = CodecOff
    /\ enc = EncOff
    /\ updre = UpdreOff
    /\ ReceiverOff

NextCyclic ==
    \/ CallerStep
    \/ \E w \in 1..MaxCalls : WorkerStep(w)

SpecCyclic == InitCyclic /\ [][NextCyclic]_vars

\* a started thread is scheduled again and again, and its sleep and its
\* sendto return
FairSpecCyclic ==
    InitCyclic /\ [][NextCyclic]_vars /\ \A w \in 1..MaxCalls : WF_vars(WorkerStep(w))

\* the worker threads inside the body of the send loop
InSendLoop == {w \in DOMAIN changer.workers : changer.workers[w].pc \in {"send", "sleep"}}

\* C29: at any time at most one cyclic worker thread is running the send
\* loop, after any sequence of start and stop calls.
C29_AtMostOneWorker == Cardinality(InSendLoop) <= 1

\* C30: while cycle_active stays False after a stop, a worker sends at most
\* one further command, and it terminates (unless the cycle is started again).
C30_StopEndsWorker ==
    /\ [](\A w \in DOMAIN changer.workers : changer.workers[w].further <= 1)
    /\ \A w \in 1..MaxCalls :
          (w \in DOMAIN changer.workers /\ ~changer.cycle_active)
             ~> (changer.cycle_active \/ WorkerAt(w, "done"))

\* the caller enters start_cyclic_lane_change or stop_cyclic_lane_change
CallEntered == changer'.calls = changer.calls + 1

\* the call entered in this step returns False in it and leaves cycle_active,
\* cycle_thread and the threads as they are
RefusedUnchanged ==
    /\ changer'.returns = Append(changer.returns, Returned(changer'.op, FALSE))
    /\ changer'.pc = "idle"
    /\ changer'.cycle_active = changer.cycle_active
    /\ changer'.cycle_thread = changer.cycle_thread
    /\ changer'.workers = changer.workers
    /\ changer'.last = changer.last

\* C34: start_cyclic_lane_change called while cycle_active is True returns
\* False and changes nothing (no thread is created, cycle_thread and
\* cycle_active are as before); stop_cyclic_lane_change called while
\* cycle_active is False returns False and changes nothing.
C34_RefusedCallsChangeNothing ==
    [][ CallEntered =>
          /\ (changer'.op = "start" /\ changer.cycle_active) => RefusedUnchanged
          /\ (changer'.op = "stop" /\ ~changer.cycle_active) => RefusedUnchanged ]_vars

\* C34 witness: stop was refused before the cycle was started, and a second
\* start was refused while the first cycle was active with its one thread
C34_Witness ==
    /\ changer.returns = << Returned("stop", FALSE), Returned("start", TRUE),
                            Returned("start", FALSE) >>
    /\ changer.cycle_active
    /\ changer.cycle_thread = 1
    /\ Len(changer.workers) = 1

\* the sum of the lengths of the datagrams of a sequence
RECURSIVE SumOfLengths(_)
SumOfLengths(datagrams) ==
    IF datagrams = << >> THEN 0
    ELSE Len(Head(datagrams)) + SumOfLengths(Tail(datagrams))

\* every datagram recvfrom returned to UDPReceiver.start has been processed
AllProcessed == updre.pc \in {"while", "recvfrom"}

\* C36: in updre.UDPReceiver, after every processed datagram packet_count
\* equals stats['total_packets'], which is the number of datagrams received;
\* stats['total_bytes'] is the sum of their lengths; and the counts of
\* command_types add up to the number of received datagrams of 4 bytes or
\* more (a shorter one is counted in the totals and under no command type).
C36_CountersAgree ==
    AllProcessed =>
        /\ updre.packet_count = updre.stats.total_packets
        /\ updre.stats.total_packets = Len(updre.arrived)
        /\ updre.stats.total_bytes = SumOfLengths(updre.arrived)
        /\ SumOver(updre.stats.command_types, DOMAIN updre.stats.command_types)
             = Cardinality({k \in DOMAIN updre.arrived : Len(updre.arrived[k]) >= 4})

\* C36 witness: three datagrams were processed, the 2-byte 'CS' among them,
\* which is under no command type
C36_Witness ==
    /\ AllProcessed
    /\ Len(updre.arrived) = 3
    /\ updre.arrived[2] = B_CS
    /\ updre.stats.total_packets = 3
    /\ SumOver(updre.stats.command_types, DOMAIN updre.stats.command_types) = 2

\* C37: UDPReceiver.start returns False without listening when setup fails;
\* otherwise, however the receive loop ends (Ctrl+C or an error), stop has run
\* when start returns: running is False, the socket is closed and set to
\* None, and start returns True.
C37_StartReturnsAfterStop ==
    /\ updre.ret # "none" <=> updre.pc \in {"setup_failed", "returned"}
    /\ updre.pc = "setup_failed" =>
          /\ updre.ret = "False"
          /\ ~updre.running
          /\ updre.arrived = << >>
          /\ updre.status.pc = "not_started"
    /\ updre.pc = "returned" =>
          /\ updre.ret = "True"
          /\ ~updre.running
          /\ updre.socket = "None"
    /\ (updre.interrupted \/ updre.recv_errors > 0) => updre.pc = "returned"

\* C37 witness: after two datagrams recvfrom raised an error; stop has run and
\* start has returned True
C37_Witness ==
    /\ updre.pc = "returned"
    /\ updre.ret = "True"
    /\ updre.recv_errors = 1
    /\ Len(updre.arrived) = 2
    /\ updre.socket = "None"
    /\ ~updre.running

\* worker w sends a command in this step
Sends(w) ==
    /\ WorkerAt(w, "send")
    /\ changer'.workers[w].pc = "sleep"
    /\ changer'.last = changer'.workers[w].sent
    /\ changer'.workers[w].requested = changer'.workers[w].sent

\* worker w calls request_lane_change in this step
Requests(w) == WorkerAt(w, "send") /\ changer'.workers[w].pc = "sleep"

\* the direction field of an FCAL command
CommandDirection(command) == struct_unpack_i(Slice(command, 8, 12))

\* the command is an FCAL command of the cycle's agent id and mode
\* FORCE_CHANGE, to the left or to the right
CycleCommand(command) ==
    /\ Len(command) = 16
    /\ Slice(command, 0, 4) = B_FCAL
    /\ struct_unpack_i(Slice(command, 4, 8)) = changer.agent_id
    /\ CommandDirection(command) \in {LEFT, RIGHT}
    /\ struct_unpack_i(Slice(command, 12, 16)) = FORCE_CHANGE

\* the command comes after the command before as the first command, with
\* direction LEFT, or as the next one: the other direction with
\* alternate_direction, LEFT without
Follows(command, before) ==
    /\ CycleCommand(command)
    /\ before = << >> => CommandDirection(command) = LEFT
    /\ (before # << >> /\ changer.alternate_direction)
          => CommandDirection(command) # CommandDirection(before)
    /\ ~changer.alternate_direction => CommandDirection(command) = LEFT

\* C35 as stated: the commands sent by one cyclic worker all carry the given
\* agent id and mode FORCE_CHANGE; the first has direction LEFT, and with
\* alternate_direction consecutive commands strictly alternate, while without
\* it every command has direction LEFT.
C35_SentCommandsAlternate ==
    [][ \A w \in DOMAIN changer.workers :
           Sends(w) => Follows(changer'.workers[w].sent, changer.workers[w].sent) ]_vars

\* C35: the commands one cyclic worker gives to request_lane_change all carry
\* the given agent id and mode FORCE_CHANGE; the first has direction LEFT,
\* and with alternate_direction consecutive ones strictly alternate, while
\* without it every one has direction LEFT.  A request that succeeds sends
\* exactly that command; a request that fails sends nothing and is not
\* repeated, and the direction is switched all the same.
C35_RequestedCommandsAlternate ==
    [][ \A w \in DOMAIN changer.workers :
           /\ Requests(w) =>
                 /\ Follows(changer'.workers[w].requested, changer.workers[w].requested)
                 /\ \/ changer'.workers[w].sent = changer'.workers[w].requested
                    \/ changer'.workers[w].sent = changer.workers[w].sent
           /\ ~Requests(w) =>
                 /\ changer'.workers[w].sent = changer.workers[w].sent
                 /\ changer'.workers[w].requested = changer.workers[w].requested ]_vars

\* C35 witness: with alternate_direction a worker has sent a command to the
\* left, then one to the right, and goes on
C35_Witness ==
    /\ changer.alternate_direction
    /\ changer.agent_id = -256
    /\ \E w \in DOMAIN changer.workers :
          /\ changer.workers[w].pc = "while"
          /\ changer.workers[w].current_direction = LEFT
          /\ changer.workers[w].sent = request_lane_change(-256, RIGHT, FORCE_CHANGE)
          /\ changer.workers[w].requested = changer.workers[w].sent

\* C30: the cycle was stopped while the worker was about to send; the worker
\* has sent that one command and ended, and the cycle was not started again
C30_Witness ==
    /\ Len(changer.workers) = 1
    /\ changer.calls = 2
    /\ changer.pc = "idle"
    /\ ~changer.cycle_active
    /\ changer.workers[1].further = 1
    /\ changer.workers[1].pc = "done"
    /\ changer.last = request_lane_change(changer.agent_id, LEFT, FORCE_CHANGE)

(***************************************************************************)
(* resim_simulator.py: the simulator that answers the commands             *)
(***************************************************************************)

\* resim_simulator.py line 18: the module-level SEND_PORT
SEND_PORT == 20000

\* lane_change_test.py line 26
RECEIVE_PORT == 20000

\* the send_port argument of resim_simulator (--send-port, line 163)
SendPortArgs == {SEND_PORT, 20005}

\* resim_simulator.py line 127
TEST_MESSAGE_FROM_RESIM ==
    << 84, 69, 83, 84, 95, 77, 69, 83, 83, 65, 71, 69, 95, 70, 82, 79, 77, 95, 82, 69, 83, 73, 77 >>

\* resim_simulator.py line 74
TEST_RESPONSE_FROM_RESIM ==
    << 84, 69, 83, 84, 95, 82, 69, 83, 80, 79, 78, 83, 69, 95, 70, 82, 79, 77, 95, 82, 69, 83,
       73, 77 >>

\* response = None (line 36); `if response:` (line 78) takes None and b'' alike
None == << >>

handle_command_running(data) ==
    IF Len(data) < 2 THEN None
    ELSE LET prefix == DecodeAscii(Slice(data, 0, 2))
         IN IF prefix = B_CS \/ prefix = B_CP THEN B_SS \o struct_pack_i(1)
            ELSE IF prefix = B_CL /\ Len(data) >= 14
                 THEN B_RL \o struct_pack_i(struct_unpack_i(Slice(data, 2, 6)))
                           \o struct_pack_i(1) \o struct_pack_i(0)
            ELSE IF StartsWith(data, B_TEST_) THEN TEST_RESPONSE_FROM_RESIM
            ELSE None

\* resim_simulator.py lines 22-76, handle_command up to `if response:`: the
\* value of response.  A frame under 2 bytes returns at once (lines 30-32);
\* the prefix is the first 2 bytes decoded as ASCII with errors='replace'
\* (line 34); the three unpacks of lines 56-58 read 4 bytes each of a frame
\* of at least 14 bytes and cannot raise.
handle_command(data) ==
    IF Len(data) < 2 THEN None
    ELSE LET prefix == DecodeAscii(Slice(data, 0, 2))
         IN IF prefix = B_CS THEN B_SS \o struct_pack_i(1)
            ELSE IF prefix = B_CP THEN B_SS \o struct_pack_i(2)
            ELSE IF prefix = B_CL /\ Len(data) >= 14
                 THEN B_RL \o struct_pack_i(struct_unpack_i(Slice(data, 2, 6)))
                           \o struct_pack_i(1) \o struct_pack_i(0)
            ELSE IF StartsWith(data, B_TEST_) THEN TEST_RESPONSE_FROM_RESIM
            ELSE None

\* lane_change_test.py lines 127-132: reason_codes.get(reason, "未知原因(..)")
reason_codes(reason) ==
    CASE reason = 0 -> "no_reason"
      [] reason = 1 -> "lane_does_not_exist"
      [] reason = 2 -> "dangerous"
      [] reason = 3 -> "cannot_change"
      [] OTHER -> "unknown_reason"

listen_decode_offset(data) ==
    IF StartsWith(data, B_RL)
    THEN IF Len(Slice(data, 2, 14)) # 12 THEN [kind |-> "parse_error"]
         ELSE LET result == struct_unpack_i(Slice(data, 2, 6))
                  reason == struct_unpack_i(Slice(data, 10, 14))
              IN [kind |-> "lane_change_result",
                  agent_id |-> struct_unpack_i(Slice(data, 6, 10)),
                  result |-> IF result = 1 THEN "success" ELSE "failure",
                  reason |-> reason, reason_text |-> reason_codes(reason)]
    ELSE [kind |-> "unknown_response"]

\* lane_change_test.py lines 116-137, what listen_for_response makes of one
\* datagram: an 'RL' frame is unpacked as three int32 from data[2:14]
\* (struct.error, caught at line 135, unless these are 12 bytes); result 1 is
\* success, every other value failure; any other frame is an unknown response
listen_decode(data) ==
    IF StartsWith(data, B_RL)
    THEN IF Len(Slice(data, 2, 14)) # 12 THEN [kind |-> "parse_error"]
         ELSE LET result == struct_unpack_i(Slice(data, 6, 10))
                  reason == struct_unpack_i(Slice(data, 10, 14))
              IN [kind |-> "lane_change_result",
                  agent_id |-> struct_unpack_i(Slice(data, 2, 6)),
                  result |-> IF result = 1 THEN "success" ELSE "failure",
                  reason |-> reason, reason_text |-> reason_codes(reason)]
    ELSE [kind |-> "unknown_response"]

\* how many commands one run of the simulator receives at most
MaxCommands == 2

\* the frames sent to the simulator: every frame create_lane_change_command
\* builds for the agent ids and directions and modes in {0, 1}, and frames of
\* every branch of handle_command and of none
SimFrames ==
    {create_lane_change_command(a, d, m) : a \in AgentIds, d \in {0, 1}, m \in {0, 1}}
    \cup {create_lane_change_command(10, 0, 1) \o << 0, 0, 128, 63 >>,
          create_lane_change_command(10, 7, -1),
          Take(create_lane_change_command(10, 0, 1), 13), B_CL, B_CL \o << 10, 0, 0, 0 >>,
          << >>, << 67 >>, B_CS, B_CS \o << 1, 2, 3 >>, B_CP, B_CP \o << 0 >>,
          B_CR, B_SS \o << 1, 0, 0, 0 >>, B_RL \o struct_pack_i(10), << 195, 83 >>,
          << 67, 211 >>, << 84, 69, 83, 84 >>, B_TEST_, B_TEST_ \o << 72, 73 >>,
          << 116, 101, 115, 116, 95 >>, B_FCAL \o struct_pack_i(10)}

\* the frames that follow the first one in a run: one of each branch of
\* handle_command
SimFramesAfter ==
    {create_lane_change_command(10, 0, 1), Take(create_lane_change_command(10, 0, 1), 13),
     B_CS, B_CP, B_TEST_, << 67 >>, B_CR}

SimUnchanged == UNCHANGED << fwd, env, sender, changer, codec, enc, updre, receiverVars >>

\* lines 41-44: recv_sock.bind succeeds
SimBind ==
    /\ simulator.pc = "bind"
    /\ simulator' = [simulator EXCEPT !.pc = "startup"]
    /\ SimUnchanged

\* lines 45-48: bind raises OSError; the function returns
SimBindFails ==
    /\ simulator.pc = "bind"
    /\ simulator' = [simulator EXCEPT !.pc = "returned"]
    /\ SimUnchanged

\* lines 127-130: the startup message goes to (target_ip, send_port), the
\* arguments of resim_simulator
SimStartup ==
    /\ simulator.pc = "startup"
    /\ simulator' = [simulator EXCEPT !.pc = "recvfrom",
                          !.sent = Append(@, [cmd |-> 0, to |-> simulator.send_port,
                                              data |-> TEST_MESSAGE_FROM_RESIM])]
    /\ SimUnchanged

\* lines 131-132: sendto raises, the exception is printed
SimStartupRaises ==
    /\ simulator.pc = "startup"
    /\ simulator' = [simulator EXCEPT !.pc = "recvfrom"]
    /\ SimUnchanged

\* lines 138-141: recvfrom returns a datagram; command_count += 1
SimRecv ==
    /\ simulator.pc = "recvfrom"
    /\ simulator.inflight > 0
    /\ \E data \in (IF simulator.command_count = 0 THEN SimFrames ELSE SimFramesAfter) :
          simulator' = [simulator EXCEPT !.pc = "handle_command", !.inflight = @ - 1, !.data = data,
                             !.command_count = @ + 1, !.received = Append(@, data)]
    /\ SimUnchanged

\* lines 146-149: socket.timeout; a dot is written and the loop goes on
SimRecvTimeout ==
    /\ simulator.pc = "recvfrom"
    /\ UNCHANGED simulator
    /\ SimUnchanged

\* lines 22-76 and 86-88: the response is computed; with none the frame is
\* reported as unhandled and handle_command returns
SimHandle ==
    /\ simulator.pc = "handle_command"
    /\ LET response == handle_command(simulator.data)
       IN simulator' = [simulator EXCEPT !.response = response,
                             !.pc = IF response = None THEN "recvfrom" ELSE "sendto"]
    /\ SimUnchanged

\* lines 78-83: send_sock.sendto(response, (TARGET_IP, SEND_PORT)); SEND_PORT is
\* the module-level name, which resim_simulator does not assign
SimSend ==
    /\ simulator.pc = "sendto"
    /\ simulator' = [simulator EXCEPT !.pc = "recvfrom",
                          !.sent = Append(@, [cmd |-> simulator.command_count, to |-> SEND_PORT,
                                              data |-> simulator.response])]
    /\ SimUnchanged

\* lines 84-85: sendto raises, the exception is printed, nothing is sent
SimSendRaises ==
    /\ simulator.pc = "sendto"
    /\ simulator' = [simulator EXCEPT !.pc = "recvfrom", !.send_failed = @ \cup {simulator.command_count}]
    /\ SimUnchanged

\* lines 152-155 and 173-176: KeyboardInterrupt leaves the loop through the
\* finally clause, which closes both sockets
SimInterrupt ==
    /\ simulator.pc \in {"recvfrom", "handle_command", "sendto"}
    /\ simulator' = [simulator EXCEPT !.pc = "closed"]
    /\ SimUnchanged

\* lane_change_test.py lines 107-137: listen_for_response, bound to
\* RECEIVE_PORT, receives the next datagram the simulator sent there and
\* decodes it; a datagram sent to another port does not reach it
ClientHears ==
    /\ simulator.pc # "off"
    /\ Len(simulator.heard) < Len(simulator.sent)
    /\ LET s == simulator.sent[Len(simulator.heard) + 1]
       IN simulator' = [simulator EXCEPT !.heard = Append(@, IF s.to = RECEIVE_PORT
                                                 THEN listen_decode(s.data)
                                                 ELSE [kind |-> "not_delivered"])]
    /\ SimUnchanged

InitSim ==
    /\ simulator \in {[SimOff EXCEPT !.pc = "bind", !.send_port = sp,
                                      !.inflight = MaxCommands] : sp \in SendPortArgs}
    /\ fwd = FwdOff
    /\ env = EnvOff
    /\ sender = SenderOff
    /\ changer = ChangerOff
    /\ codec = CodecOff
    /\ enc = EncOff
    /\ updre = UpdreOff
    /\ ReceiverOff

NextSim ==
    \/ SimBind
    \/ SimBindFails
    \/ SimStartup
    \/ SimStartupRaises
    \/ SimRecv
    \/ SimRecvTimeout
    \/ SimHandle
    \/ SimSend
    \/ SimSendRaises
    \/ SimInterrupt
    \/ ClientHears

SpecSim == InitSim /\ [][NextSim]_vars

\* the responses sent for the k-th received command
ResponsesTo(k) == {j \in 1..Len(simulator.sent) : simulator.sent[j].cmd = k}

\* handle_command has returned for the k-th received command
Handled(k) ==
    k < simulator.command_count \/ (k = simulator.command_count /\ simulator.pc = "recvfrom")

\* what the k-th command is to be answered with, by the first bytes of the frame
ExpectedResponse(data) ==
    IF StartsWith(data, B_CS) THEN B_SS \o << 1, 0, 0, 0 >>
    ELSE IF StartsWith(data, B_CP) THEN B_SS \o << 2, 0, 0, 0 >>
    ELSE IF StartsWith(data, B_CL) /\ Len(data) >= 14
         THEN B_RL \o SubSeq(data, 3, 6) \o << 1, 0, 0, 0 >> \o << 0, 0, 0, 0 >>
    ELSE IF StartsWith(data, B_TEST_) THEN TEST_RESPONSE_FROM_RESIM
    ELSE << >>

\* C31: for each received command the simulator sends at most one response;
\* what it sends is 'SS' + int32 1 for a 'CS' frame, 'SS' + int32 2 for a 'CP'
\* frame, 'RL' + (the request's agentId, 1, 0) for a 'CL' frame of at least 14
\* bytes and 'TEST_RESPONSE_FROM_RESIM' for a 'TEST_' frame; every other frame
\* gets none.  A handled command of the four kinds has its response unless
\* sendto raised.
C31_OneResponsePerCommand ==
    \A k \in 1..Len(simulator.received) :
        LET expected == ExpectedResponse(simulator.received[k])
        IN /\ Cardinality(ResponsesTo(k)) <= 1
           /\ \A j \in ResponsesTo(k) : simulator.sent[j].data = expected /\ expected # << >>
           /\ (Handled(k) /\ expected # << >> /\ k \notin simulator.send_failed)
                  => ResponsesTo(k) # {}

\* C31 witness: two commands were handled, a 'CL' frame of a negative agent id
\* that was answered and a 13-byte 'CL' frame that was not
C31_Witness ==
    /\ Len(simulator.received) = 2
    /\ Handled(2)
    /\ simulator.received[1] = create_lane_change_command(-256, 1, 0)
    /\ simulator.received[2] = Take(create_lane_change_command(10, 0, 1), 13)
    /\ ResponsesTo(1) # {}
    /\ ResponsesTo(2) = {}

\* for each agent id, the frames create_lane_change_command builds for it
\* with direction and mode in {0, 1}
LaneChangeFrames ==
    [a \in AgentIds |-> {create_lane_change_command(a, d, m) : d \in {0, 1}, m \in {0, 1}}]

\* C32: end to end, for every agent id and every direction and mode in
\* {0, 1}: when the frame create_lane_change_command builds has reached the
\* simulator and the simulator's response has reached listen_for_response,
\* the listener has decoded a lane-change result with the same agent id,
\* result success and reason code 0.
C32_EndToEndLaneChange ==
    \A k \in 1..Len(simulator.received) : \A a \in AgentIds :
        simulator.received[k] \in LaneChangeFrames[a] =>
            \A j \in ResponsesTo(k) :
                (j <= Len(simulator.heard) /\ simulator.heard[j].kind # "not_delivered") =>
                    simulator.heard[j] = [kind |-> "lane_change_result", agent_id |-> a,
                                    result |-> "success", reason |-> 0,
                                    reason_text |-> "no_reason"]

\* C32 witness: the listener decoded the simulator's answer to the frame of
\* the smallest agent id
C32_Witness ==
    \E k \in 1..Len(simulator.received) : \E j \in ResponsesTo(k) :
        /\ simulator.received[k] = create_lane_change_command(INT32_MIN, 1, 1)
        /\ j <= Len(simulator.heard)
        /\ simulator.heard[j].kind = "lane_change_result"
        /\ simulator.heard[j].agent_id = INT32_MIN

(***************************************************************************)
(* udp_forwarder.py: the forwarder between two ports                       *)
(***************************************************************************)

\* how many datagrams arrive in a run of the forwarder
MaxForwards == 3

\* the datagrams that arrive: ASCII text, a binary command, bytes that are
\* no UTF-8, and the empty datagram
FwdFrames ==
    {B_CS, create_lane_change_command(10, 0, 1), B_TEST_ \o << 72, 73 >>, << 195, 40 >>,
     << 255 >>, << >>}

FwdUnchanged ==
    UNCHANGED << simulator, env, sender, changer, codec, enc, updre, receiverVars >>

\* lines 36-39: recv_sock.bind succeeds; settimeout(1); forward_count = 0
FwdBind ==
    /\ fwd.pc = "bind"
    /\ fwd' = [fwd EXCEPT !.pc = "recvfrom"]
    /\ FwdUnchanged

\* lines 40-43: bind raises OSError; the function returns
FwdBindFails ==
    /\ fwd.pc = "bind"
    /\ fwd' = [fwd EXCEPT !.pc = "returned"]
    /\ FwdUnchanged

\* lines 55-66: recvfrom returns a datagram; it is printed, decoded as UTF-8
\* with errors='replace' for the printing only
FwdRecv ==
    /\ fwd.pc = "recvfrom"
    /\ fwd.inflight > 0
    /\ \E data \in FwdFrames :
          fwd' = [fwd EXCEPT !.pc = "sendto", !.inflight = @ - 1, !.data = data,
                             !.received = Append(@, data)]
    /\ FwdUnchanged

\* lines 73-76: socket.timeout; a dot is written and the loop goes on
FwdRecvTimeout ==
    /\ fwd.pc = "recvfrom"
    /\ UNCHANGED fwd
    /\ FwdUnchanged

\* lines 77-78: recvfrom raises another error; it is printed and the loop
\* goes on
FwdRecvRaises ==
    /\ fwd.pc = "recvfrom"
    /\ fwd.recv_errors = 0
    /\ fwd' = [fwd EXCEPT !.recv_errors = 1]
    /\ FwdUnchanged

\* a forwarder that would send the text it printed
FwdPayload_text(data) == DecodeUtf8(data)

\* line 69: the bytes given to sendto are data, as received
FwdPayload(data) == data

\* lines 69-71: send_sock.sendto(data, (target_ip, target_port)) returns;
\* forward_count += 1
FwdSend ==
    /\ fwd.pc = "sendto"
    /\ fwd' = [fwd EXCEPT
            !.pc = "recvfrom",
            !.forward_count = @ + 1,
            !.sendto_calls = Append(@, [datagram |-> Len(fwd.received),
                                        data |-> FwdPayload(fwd.data), sent |-> TRUE])]
    /\ FwdUnchanged

\* lines 69, 77-78: sendto raises; the error is printed, forward_count is
\* not changed and the loop goes on
FwdSendRaises ==
    /\ fwd.pc = "sendto"
    /\ fwd' = [fwd EXCEPT
            !.pc = "recvfrom",
            !.sendto_calls = Append(@, [datagram |-> Len(fwd.received),
                                        data |-> FwdPayload(fwd.data), sent |-> FALSE])]
    /\ FwdUnchanged

\* lines 79-82 and 102-105: Ctrl+C leaves the loop through the finally
\* clause, which closes both sockets
FwdInterrupt ==
    /\ fwd.pc \in {"recvfrom", "sendto"}
    /\ fwd' = [fwd EXCEPT !.pc = "closed"]
    /\ FwdUnchanged

InitFwd ==
    /\ fwd = [FwdOff EXCEPT !.pc = "bind", !.inflight = MaxForwards]
    /\ simulator = SimOff
    /\ env = EnvOff
    /\ sender = SenderOff
    /\ changer = ChangerOff
    /\ codec = CodecOff
    /\ enc = EncOff
    /\ updre = UpdreOff
    /\ ReceiverOff

NextFwd ==
    \/ FwdBind
    \/ FwdBindFails
    \/ FwdRecv
    \/ FwdRecvTimeout
    \/ FwdRecvRaises
    \/ FwdSend
    \/ FwdSendRaises
    \/ FwdInterrupt

SpecFwd == InitFwd /\ [][NextFwd]_vars

\* the sendto calls made for the k-th received datagram
ForwardsOf(k) == {j \in DOMAIN fwd.sendto_calls : fwd.sendto_calls[j].datagram = k}

\* the sendto calls that returned
Forwarded == {j \in DOMAIN fwd.sendto_calls : fwd.sendto_calls[j].sent}

\* the forwarder is done with the k-th received datagram
FwdDone(k) == k < Len(fwd.received) \/ (k = Len(fwd.received) /\ fwd.pc = "recvfrom")

\* C38: udp_forwarder gives the payload of each received datagram to sendto
\* byte for byte, once, in arrival order; forward_count is the number of
\* datagrams forwarded successfully; a forward that fails leaves
\* forward_count as it is, is not repeated, and the loop goes on to the next
\* datagram.
C38_ForwardsOnceInOrder ==
    /\ \A j \in DOMAIN fwd.sendto_calls :
          /\ fwd.sendto_calls[j].data = fwd.received[fwd.sendto_calls[j].datagram]
          /\ j > 1 => fwd.sendto_calls[j - 1].datagram < fwd.sendto_calls[j].datagram
    /\ \A k \in DOMAIN fwd.received :
          /\ Cardinality(ForwardsOf(k)) <= 1
          /\ FwdDone(k) => Cardinality(ForwardsOf(k)) = 1
    /\ fwd.forward_count = Cardinality(Forwarded)
    /\ (fwd.sendto_calls # << >> /\ fwd.pc # "closed") => fwd.pc \in {"recvfrom", "sendto"}

\* C38 witness: three datagrams arrived; the second, which is no UTF-8, could
\* not be forwarded, and the third was forwarded after it
C38_Witness ==
    /\ Len(fwd.received) = 3
    /\ fwd.received[2] = << 195, 40 >>
    /\ fwd.pc = "recvfrom"
    /\ fwd.forward_count = 2
    /\ Len(fwd.sendto_calls) = 3
    /\ ~fwd.sendto_calls[2].sent
    /\ fwd.sendto_calls[3].sent

(***************************************************************************)
(* gymEvn.py: ResimEnv.reset and ResimEnv.step.  A component of an action  *)
(* is given as a whole number of half units, as the arguments of           *)
(* struct_pack_f are.                                                      *)
(***************************************************************************)

\* gymEvn.py line 105
B_FRS == << 70, 82, 83 >>

\* gymEvn.py line 96
B_FCON == << 70, 67, 79, 78 >>

\* gymEvn.py lines 103-105
_create_reset_command == B_FRS

\* gymEvn.py lines 90-101
_create_control_command(agent_id, accel, brake, steer) ==
    B_FCON \o struct_pack_i(agent_id) \o struct_pack_f(accel) \o struct_pack_f(brake)
           \o struct_pack_f(steer)

\* how many calls of reset and step are made on one ResimEnv
MaxEnvCalls == 3

\* the steps made on the ResimEnv before the calls that are followed: none,
\* or two less than max_steps
StepsBefore == {0, 998}

\* the actions given to step, as << accel, brake, steer, lane change >> in
\* half units: the lane change component is -1, -0.5, 0, 0.5 or 1
EnvActions ==
    {<< c[1], c[2], c[3], lane >> : c \in {<< 0, 0, 0 >>, << 2, 1, -2 >>, << 1, 0, 1 >>},
                                    lane \in {-2, -1, 0, 1, 2}}

EnvUnchanged ==
    UNCHANGED << simulator, fwd, sender, changer, codec, enc, updre, receiverVars >>

\* line 160: abs(action[3]) > 0.5
LaneChangeAsked(action) == (IF action[4] < 0 THEN -action[4] ELSE action[4]) > 1

\* line 161: LEFT if action[3] < 0 else RIGHT
LaneChangeSide(action) == IF action[4] < 0 THEN LEFT ELSE RIGHT

\* a test that would be true one step late
Truncated_late(current_step, max_steps) == current_step > max_steps

\* line 192: truncated = self.current_step >= self.max_steps
Truncated(current_step, max_steps) == current_step >= max_steps

\* lines 208-212: reset is called; super().reset, current_step = 0
EnvReset ==
    /\ env.pc = "idle"
    /\ env.calls < MaxEnvCalls
    /\ env' = [env EXCEPT !.pc = "reset_frs", !.calls = @ + 1, !.call = "reset",
                          !.action = << 0, 0, 0, 0 >>, !.before = env.current_step,
                          !.sends = << >>, !.current_step = 0]
    /\ EnvUnchanged

\* lines 155-160: step is called; current_step += 1; the lane change
\* component of the action is tested
EnvStep ==
    /\ env.pc = "idle"
    /\ env.calls < MaxEnvCalls
    /\ \E action \in EnvActions :
          env' = [env EXCEPT !.pc = IF LaneChangeAsked(action) THEN "step_fcal"
                                   ELSE "step_fcon",
                            !.calls = @ + 1, !.call = "step", !.action = action,
                            !.before = env.current_step, !.sends = << >>,
                            !.current_step = @ + 1]
    /\ EnvUnchanged

\* the command the call gives to _send_command at its position: lines 215
\* and 219 of reset, lines 161-170 and 175-181 of step
EnvCommand ==
    CASE env.pc = "reset_frs" -> _create_reset_command
      [] env.pc = "reset_fcs" -> _create_start_command
      [] env.pc = "step_fcal" ->
            _create_lane_change_command(env.agent_id, LaneChangeSide(env.action), FORCE_CHANGE)
      [] env.pc = "step_fcon" ->
            _create_control_command(env.agent_id, env.action[1], env.action[2], env.action[3])

\* where the call goes on after _send_command
EnvAfterSend ==
    CASE env.pc = "reset_frs" -> "reset_fcs"
      [] env.pc = "reset_fcs" -> "reset_return"
      [] env.pc = "step_fcal" -> "step_fcon"
      [] env.pc = "step_fcon" -> "step_return"

EnvSending == env.pc \in {"reset_frs", "reset_fcs", "step_fcal", "step_fcon"}

\* lines 63-73: _send_command creates a socket and sendto returns
EnvSend ==
    /\ EnvSending
    /\ env' = [env EXCEPT !.pc = EnvAfterSend,
                          !.sends = Append(@, [command |-> EnvCommand, sent |-> TRUE])]
    /\ EnvUnchanged

\* lines 74-75: socket.socket() or sendto raises inside _send_command, which
\* prints the error and returns; the command is not sent
EnvSendFails ==
    /\ EnvSending
    /\ env' = [env EXCEPT !.pc = EnvAfterSend,
                          !.sends = Append(@, [command |-> EnvCommand, sent |-> FALSE])]
    /\ EnvUnchanged

\* lines 216-225: reset sleeps, reads the state and returns
EnvResetReturn ==
    /\ env.pc = "reset_return"
    /\ env' = [env EXCEPT !.pc = "idle"]
    /\ EnvUnchanged

\* lines 183-206: step sleeps, reads the state, computes the reward and
\* truncated, and returns
EnvStepReturn ==
    /\ env.pc = "step_return"
    /\ env' = [env EXCEPT !.pc = "idle",
                          !.truncated = Truncated(env.current_step, env.max_steps)]
    /\ EnvUnchanged

\* lines 24-60: the ResimEnv is constructed; steps made on it before are of
\* no effect but on current_step
InitEnv ==
    /\ env \in {[EnvOff EXCEPT !.pc = "idle", !.agent_id = a, !.current_step = n] :
                    a \in CyclicAgentIds, n \in StepsBefore}
    /\ simulator = SimOff
    /\ fwd = FwdOff
    /\ sender = SenderOff
    /\ changer = ChangerOff
    /\ codec = CodecOff
    /\ enc = EncOff
    /\ updre = UpdreOff
    /\ ReceiverOff

NextEnv ==
    \/ EnvReset
    \/ EnvStep
    \/ EnvSend
    \/ EnvSendFails
    \/ EnvResetReturn
    \/ EnvStepReturn

SpecEnv == InitEnv /\ [][NextEnv]_vars

\* the commands the last call gave to _send_command, in order
EnvRequested == [k \in DOMAIN env.sends |-> env.sends[k].command]

\* the commands of the last call that were sent, in order
EnvOnWire ==
    LET sent == SelectSeq(env.sends, LAMBDA x : x.sent)
    IN [k \in DOMAIN sent |-> sent[k].command]

\* the last call has returned
EnvReturned(call) == env.pc = "idle" /\ env.call = call

\* what a call is to send: reset the frame 'FRS' and then 'FCS'; step one
\* 'FCON' frame, after one 'FCAL' frame of mode FORCE_CHANGE to the left for a
\* negative lane change component and to the right otherwise, if and only if
\* that component is above 0.5 or below -0.5
EnvExpected ==
    IF env.call = "reset" THEN << B_FRS, B_FCS >>
    ELSE (IF env.action[4] > 1 \/ env.action[4] < -1
          THEN << B_FCAL \o struct_pack_i(env.agent_id)
                         \o struct_pack_i(IF env.action[4] < 0 THEN 0 ELSE 1)
                         \o struct_pack_i(1) >>
          ELSE << >>)
         \o << B_FCON \o struct_pack_i(env.agent_id) \o struct_pack_f(env.action[1])
                       \o struct_pack_f(env.action[2]) \o struct_pack_f(env.action[3]) >>

\* current_step and truncated after the last call
EnvCounts ==
    /\ EnvReturned("reset") => env.current_step = 0
    /\ EnvReturned("step") =>
          /\ env.current_step = env.before + 1
          /\ env.truncated <=> env.current_step >= 1000

\* C39 as stated: reset sets current_step to 0 and sends 'FRS' before 'FCS';
\* each step increments current_step by one and sends exactly one 'FCON'
\* frame, preceded by exactly one 'FCAL' frame if and only if |action[3]| >
\* 0.5; truncated is true exactly when current_step >= max_steps.
C39_FramesSent ==
    /\ EnvCounts
    /\ (EnvReturned("reset") \/ EnvReturned("step")) => EnvOnWire = EnvExpected

\* C39: reset sets current_step to 0 and gives 'FRS' and then 'FCS' to
\* _send_command; each step increments current_step by one and gives
\* _send_command exactly one 'FCON' frame, after exactly one 'FCAL' frame
\* (mode FORCE_CHANGE, direction LEFT if action[3] < 0 else RIGHT) if and only
\* if |action[3]| > 0.5; truncated is true exactly when current_step >=
\* max_steps.  Each of these frames is sent once when its sendto succeeds and
\* not at all when it fails, and the call goes on all the same.
C39_FramesRequested ==
    /\ EnvCounts
    /\ (EnvReturned("reset") \/ EnvReturned("step")) => EnvRequested = EnvExpected
    /\ \A k \in DOMAIN env.sends :
          env.sends[k].command = EnvExpected[k]

\* C39 witness: the 1000th step has returned truncated; its action asked for
\* a lane change to the left, and both frames were sent
C39_Witness ==
    /\ EnvReturned("step")
    /\ env.current_step = 1000
    /\ env.truncated
    /\ env.action[4] = -2
    /\ Len(env.sends) = 2
    /\ env.sends[1].sent /\ env.sends[2].sent
    /\ env.sends[1].command = _create_lane_change_command(env.agent_id, LEFT, FORCE_CHANGE)

====
